---- MODULE Spec2Model ----
(***************************************************************************)
(* Model of dxlog's sink delivery layer.                                   *)
(*                                                                         *)
(* Part 1: the batch/backpressure sink (runtime/sink/policy, batchSink):   *)
(* producers call Write/Flush/Close on the wrapper, one worker goroutine   *)
(* (run) drains the bounded channel into the inner sink.                   *)
(*                                                                         *)
(* Every Go statement that touches shared state (the atomic flag, the      *)
(* channels, the inner sink) is one action; goroutines interleave between  *)
(* them.  A Go select with several ready cases is a nondeterministic       *)
(* choice among them.  Specification: Spec.                                *)
(*                                                                         *)
(* Part 2: the rotating file sink (runtime/sink/policy, rotatingFileSink): *)
(* Write, Flush and Close run under the sink's mutex, so each call is one  *)
(* action; every filesystem operation of a call may fail.  Specification:  *)
(* FileSpec.  Each specification leaves the other part's variables alone.  *)
(*                                                                         *)
(* PruneSpec is FileSpec over a log directory that already holds rotated   *)
(* files.  ConcSpec is the rotating file sink called by several goroutines *)
(* at once: Lock, Unlock and the statements between them are steps of      *)
(* their own.                                                              *)
(***************************************************************************)
EXTENDS Integers, Sequences, FiniteSets, TLC

\* ---------------------------------------------------------------- bounds
NumProducers == 2      \* producer goroutines calling the wrapper
MaxWrites    == 2      \* Write calls that find the sink open, over one run
MaxFlushes   == 1      \* Flush calls that find the sink open, over one run

Producers == 1..NumProducers

\* ------------------------------------------------------------- constants
\* apis/sink/policy.Backpressure (uint8, iota)
BackpressureBlock == 0
BackpressureDrop  == 1
BackpressureShed  == 2
\* a value of the uint8 type that names no mode
BackpressureUnknown == 3

\* WithBatch: the queue size used when QueueSize <= 0
DefaultQueueSize == 1024

\* error values
ErrQueueFull   == "ErrQueueFull"
ErrBatchClosed == "ErrBatchClosed"
CtxErr         == "ctx.Err"      \* context.Canceled / DeadlineExceeded
InnerErr       == "inner.Err"    \* an error of the wrapped sink
Nil            == "nil"

\* the options a caller may hand to WithBatch
QueueSizes  == {0, 1}
Modes       == {BackpressureBlock, BackpressureDrop, BackpressureShed,
                BackpressureUnknown}
MaxEntriesS == {0, 2}
Intervals   == {0, 1}

\* who calls the inner sink
Worker   == "worker"     \* the goroutine started by WithBatch (go s.run())
Producer == "producer"   \* a goroutine inside Write, Flush or Close of the wrapper

VARIABLES
    given,      \* BatchOptions as passed to WithBatch
    opt,        \* s.opt: BatchOptions after WithBatch's defaults
    queue,      \* s.queue: the buffered channel's contents
    stop,       \* s.stop is closed
    done,       \* s.done is closed
    closed,     \* s.closed
    batch,      \* run: batch
    wpc,        \* run: where the worker is
    fi,         \* run/flush: index of the next batch entry to write
    wret,       \* run/flush: where flush() returns to
    pc,         \* per producer: where its call in progress is ("idle": none)
    cur,        \* per producer: buf, the entry of its Write in progress
    ctxDone,    \* per producer: ctx.Done() of its call in progress is closed
    ret,        \* history: the call that returned in the last step, if any
    innerRet,   \* history: what the inner sink returned in the last step, if called
    nWrites,    \* Write calls that passed the closed check (the latest entry)
    nFlushes,   \* Flush calls that passed the closed check
    accepted,   \* history: entries in the order they entered the queue
    innerLog,   \* history: calls received by the inner sink, in order
    stopCloses, \* history: how many times close(s.stop) ran
    acceptedAtClose, \* history: Len(accepted) when Swap found the flag false
    ctxFirst,   \* history: that call's ctx was cancelled while s.done was open
    \* -- rotating file sink
    sink,       \* the *rotatingFileSink (mu, file, size, created, closed, opt), if constructed
    disk,       \* the log directory: the active file and the rotated files
    handles,    \* file descriptors opened on the active file
    now,        \* time.Now(), as an index into Instants
    fret,       \* history: the file-sink call that returned in the last step
    fsLog,      \* history: the filesystem operations of that call, in order
    fhist       \* history: counters and accepted entries of the file sink

fileVars == <<sink, disk, handles, now, fret, fsLog, fhist>>

batchVars == <<given, opt, innerRet, queue, stop, done, closed, batch, wpc,
               fi, wret, pc, cur, ctxDone, ret, nWrites, nFlushes,
               accepted, innerLog, stopCloses, acceptedAtClose, ctxFirst>>

vars == <<given, opt, innerRet, queue, stop, done, closed, batch, wpc, fi,
          wret, pc, cur, ctxDone, ret, nWrites, nFlushes,
          accepted, innerLog, stopCloses, acceptedAtClose, ctxFirst,
          sink, disk, handles, now, fret, fsLog, fhist>>

sinkVars   == <<given, opt>>
workerVars == <<batch, wpc, fi, wret>>
callVars   == <<pc, cur, ctxDone>>
countVars  == <<nWrites, nFlushes>>
histVars   == <<stopCloses, acceptedAtClose, ctxFirst>>

\* ------------------------------------------------------------- WithBatch
\* WithBatch's defaults: QueueSize <= 0 becomes 1024, a mode that is none
\* of Block/Drop/Shed becomes Block.
WithBatch(o) ==
    [o EXCEPT
        !.QueueSize = IF o.QueueSize <= 0 THEN DefaultQueueSize ELSE o.QueueSize,
        !.Backpressure =
            IF /\ o.Backpressure # BackpressureBlock
               /\ o.Backpressure # BackpressureDrop
               /\ o.Backpressure # BackpressureShed
            THEN BackpressureBlock
            ELSE o.Backpressure]

\* cap(s.queue)
QueueCap == opt.QueueSize

\* What a call of the inner sink may return.
InnerResults == {Nil, InnerErr}
\* The inner sink is not called in this step.
NoCall == "none"

\* One call received by the inner sink.
InnerCall(o, by, e) == [op |-> o, by |-> by, e |-> e]

\* A call of the wrapper that returns: Write of entry e, Flush or Close.
Returned(o, e, r) == [op |-> o, e |-> e, res |-> r]

\* No call returns in this step.
NoReturn == Returned("none", 0, Nil)

\* The wrapper right after WithBatch returned: nothing queued, the worker
\* at its select, no call in progress.
BatchStart ==
    /\ queue = <<>>
    /\ stop = FALSE
    /\ done = FALSE
    /\ closed = FALSE
    /\ batch = <<>>
    /\ wpc = "select"
    /\ fi = 0
    /\ wret = "select"
    /\ pc = [p \in Producers |-> "idle"]
    /\ cur = [p \in Producers |-> 0]
    /\ ctxDone = [p \in Producers |-> FALSE]
    /\ ret = NoReturn
    /\ innerRet = NoCall
    /\ nWrites = 0
    /\ nFlushes = 0
    /\ accepted = <<>>
    /\ innerLog = <<>>
    /\ stopCloses = 0
    /\ acceptedAtClose = 0
    /\ ctxFirst = FALSE

\* ------------------------------------------------ file sink: start state
\* No sink has been constructed.
NoSink == [file |-> 0, size |-> 0, created |-> 0, closed |-> FALSE,
           opt |-> [MaxSizeMB |-> 0, MaxAgeDays |-> 0, MaxBackups |-> 0,
                    Compress |-> FALSE],
           mu |-> 0,
           built |-> FALSE]

\* s.file == nil
NilFile == 0

\* No file at a path.
NoFile == [data |-> <<>>, z |-> FALSE, mtime |-> 0, exists |-> FALSE]

\* A log directory without rotated files.
EmptyDir == [n \in {} |-> NoFile]

\* No file-sink call returns in this step.
NoFileReturn == [op |-> "none", e |-> [id |-> 0, len |-> 0], c |-> FALSE,
                 res |-> Nil]

\* Before NewRotatingFileSink is called: a is the file at Path, if any.
FileStart(a) ==
    /\ sink = NoSink
    /\ disk = [active |-> a, backups |-> EmptyDir]
    /\ handles = [open |-> {}, count |-> 0, peak |-> 0, twice |-> FALSE]
    /\ now = 1
    /\ fret = NoFileReturn
    /\ fsLog = <<>>
    /\ fhist = [called |-> FALSE, writes |-> 0, accepted |-> <<>>, torn |-> FALSE,
                rotations |-> 0, atOpen |-> <<>>, given |-> NoSink.opt,
                path |-> ""]

Init ==
    /\ given \in [QueueSize: QueueSizes, Backpressure: Modes,
                  MaxEntries: MaxEntriesS, Interval: Intervals]
    /\ opt = WithBatch(given)
    /\ BatchStart
    /\ FileStart(NoFile)

\* --------------------------------------------------------------- context
\* The caller's context is cancelled (or its deadline passes) while its
\* call waits in a select.  ctx is read by the two selects only, so a
\* cancellation at any earlier point of the call is the case c = TRUE of
\* the call's first step.
CtxCancel(p) ==
    /\ pc[p] \in {"w_block", "c_wait"}
    /\ ~ctxDone[p]
    /\ ctxDone' = [ctxDone EXCEPT ![p] = TRUE]
    /\ ctxFirst' = (ctxFirst \/ (pc[p] = "c_wait" /\ ~done))
    /\ ret' = NoReturn
    /\ innerRet' = NoCall
    /\ UNCHANGED <<sinkVars, queue, stop, done, closed, workerVars, pc, cur,
                   countVars, accepted, innerLog, stopCloses, acceptedAtClose>>
    /\ UNCHANGED fileVars

\* The call o of p returns r.
Return(p, o, r) ==
    /\ ret' = Returned(o, cur[p], r)
    /\ pc' = [pc EXCEPT ![p] = "idle"]
    /\ cur' = [cur EXCEPT ![p] = 0]
    /\ ctxDone' = [ctxDone EXCEPT ![p] = FALSE]

\* The call of p goes on at statement at.
Goto(p, at) ==
    /\ pc' = [pc EXCEPT ![p] = at]
    /\ ret' = NoReturn
    /\ innerRet' = NoCall
    /\ UNCHANGED <<cur, ctxDone>>

\* ----------------------------------------------------------------- Write
\* Mutant: Write and Flush skip the closed check.
ClosedLoadSkipped == FALSE

\* s.closed.Load(), the first statement of Write and of Flush.
ClosedLoad == closed

\* Mutant: the queue takes one entry more than its capacity.
CanSendOneMore == Len(queue) <= QueueCap

\* The send s.queue <- buf that a select may take.
CanSend == Len(queue) < QueueCap

\* Mutant: Shed is missing from the Drop case and falls to the default.
OverflowShedBlocks(m) ==
    CASE m = BackpressureDrop -> "reject"
      [] m = BackpressureBlock -> "block"
      [] OTHER -> "block"

\* Mutant: Block is listed with Drop and Shed.
OverflowBlockRejects(m) ==
    CASE m \in {BackpressureDrop, BackpressureShed, BackpressureBlock} -> "reject"
      [] OTHER -> "block"

\* Write's switch on s.opt.Backpressure once the queue was found full:
\* Drop and Shed return ErrQueueFull, Block and any other value block.
Overflow(m) ==
    CASE m \in {BackpressureDrop, BackpressureShed} -> "reject"
      [] m = BackpressureBlock -> "block"
      [] OTHER -> "block"

\* s.queue <- buf
Send(p) ==
    /\ queue' = Append(queue, cur[p])
    /\ accepted' = Append(accepted, cur[p])

\* Write, up to the closed check.  c: ctx is already cancelled.  buf is the
\* copy of the entry; the model names it by the number of the Write call.
WriteBegin(p, c) ==
    /\ pc[p] = "idle"
    /\ IF ClosedLoad
       THEN /\ ret' = Returned("Write", nWrites + 1, ErrBatchClosed)
            /\ UNCHANGED <<pc, cur, ctxDone, nWrites>>
       ELSE /\ nWrites < MaxWrites
            /\ nWrites' = nWrites + 1
            /\ pc' = [pc EXCEPT ![p] = "w_try"]
            /\ cur' = [cur EXCEPT ![p] = nWrites + 1]
            /\ ctxDone' = [ctxDone EXCEPT ![p] = c]
            /\ ret' = NoReturn
    /\ innerRet' = NoCall
    /\ UNCHANGED <<sinkVars, queue, stop, done, closed, workerVars, nFlushes,
                   accepted, innerLog, histVars>>
    /\ UNCHANGED fileVars

\* Write: the non-blocking enqueue, then the switch on the mode.
WriteTry(p) ==
    /\ pc[p] = "w_try"
    /\ IF CanSend
       THEN /\ Send(p)
            /\ Return(p, "Write", Nil)
            /\ innerRet' = NoCall
       ELSE /\ UNCHANGED <<queue, accepted>>
            /\ IF Overflow(opt.Backpressure) = "reject"
               THEN /\ Return(p, "Write", ErrQueueFull)
                    /\ innerRet' = NoCall
               ELSE Goto(p, "w_block")
    /\ UNCHANGED <<sinkVars, stop, done, closed, workerVars, countVars,
                   innerLog, histVars>>
    /\ UNCHANGED fileVars

\* Mutant: once there is room again, the blocked Write hands its entry to
\* the inner sink itself instead of queueing it.
WriteBlockThrough(p) ==
    /\ pc[p] = "w_block"
    /\ CanSend
    /\ innerLog' = Append(innerLog, InnerCall("Write", Producer, cur[p]))
    /\ innerRet' \in InnerResults
    /\ Return(p, "Write", Nil)
    /\ UNCHANGED <<sinkVars, queue, stop, done, closed, workerVars, countVars,
                   accepted, histVars>>
    /\ UNCHANGED fileVars

\* Write: the blocking select, case s.queue <- buf.
WriteBlockSend(p) ==
    /\ pc[p] = "w_block"
    /\ CanSend
    /\ Send(p)
    /\ Return(p, "Write", Nil)
    /\ innerRet' = NoCall
    /\ UNCHANGED <<sinkVars, stop, done, closed, workerVars, countVars,
                   innerLog, histVars>>
    /\ UNCHANGED fileVars

\* Write: the blocking select, case <-ctx.Done().
WriteBlockCancel(p) ==
    /\ pc[p] = "w_block"
    /\ ctxDone[p]
    /\ Return(p, "Write", CtxErr)
    /\ innerRet' = NoCall
    /\ UNCHANGED <<sinkVars, queue, stop, done, closed, workerVars, countVars,
                   accepted, innerLog, histVars>>
    /\ UNCHANGED fileVars

\* ----------------------------------------------------------------- Flush
\* Flush, up to the closed check.  (Flush hands ctx to the inner sink and
\* never reads it.)
FlushBegin(p) ==
    /\ pc[p] = "idle"
    /\ IF ClosedLoad
       THEN /\ ret' = Returned("Flush", 0, ErrBatchClosed)
            /\ UNCHANGED <<pc, ctxDone, nFlushes>>
       ELSE /\ nFlushes < MaxFlushes
            /\ nFlushes' = nFlushes + 1
            /\ pc' = [pc EXCEPT ![p] = "f_call"]
            /\ ctxDone' = ctxDone
            /\ ret' = NoReturn
    /\ innerRet' = NoCall
    /\ UNCHANGED <<sinkVars, queue, stop, done, closed, workerVars, cur,
                   nWrites, accepted, innerLog, histVars>>
    /\ UNCHANGED fileVars

\* Mutant: Flush calls the inner sink and drops its result.
FlushCallSwallows(p) ==
    /\ pc[p] = "f_call"
    /\ innerLog' = Append(innerLog, InnerCall("Flush", Producer, 0))
    /\ innerRet' \in InnerResults
    /\ Return(p, "Flush", Nil)
    /\ UNCHANGED <<sinkVars, queue, stop, done, closed, workerVars, countVars,
                   accepted, histVars>>
    /\ UNCHANGED fileVars

\* Flush: return s.next.Flush(ctx).
FlushCall(p) ==
    /\ pc[p] = "f_call"
    /\ innerLog' = Append(innerLog, InnerCall("Flush", Producer, 0))
    /\ innerRet' \in InnerResults
    /\ Return(p, "Flush", innerRet')
    /\ UNCHANGED <<sinkVars, queue, stop, done, closed, workerVars, countVars,
                   accepted, histVars>>
    /\ UNCHANGED fileVars

\* ----------------------------------------------------------------- Close
\* Mutant: the flag is stored, not swapped; every Close takes itself for
\* the first.
SwapOldLost == FALSE

\* What s.closed.Swap(true) returns: the flag's old value.
SwapOld == closed

\* Close: s.closed.Swap(true).  c: ctx is already cancelled.
CloseBegin(p, c) ==
    /\ pc[p] = "idle"
    /\ closed' = TRUE
    /\ IF SwapOld
       THEN /\ ret' = Returned("Close", 0, Nil)
            /\ UNCHANGED <<pc, ctxDone, acceptedAtClose, ctxFirst>>
       ELSE /\ pc' = [pc EXCEPT ![p] = "c_stop"]
            /\ ctxDone' = [ctxDone EXCEPT ![p] = c]
            /\ ret' = NoReturn
            /\ acceptedAtClose' = Len(accepted)
            /\ ctxFirst' = c
    /\ innerRet' = NoCall
    /\ UNCHANGED <<sinkVars, queue, stop, done, workerVars, cur, countVars,
                   accepted, innerLog, stopCloses>>
    /\ UNCHANGED fileVars

\* Close: close(s.stop).
CloseStop(p) ==
    /\ pc[p] = "c_stop"
    /\ stop' = TRUE
    /\ stopCloses' = stopCloses + 1
    /\ Goto(p, "c_wait")
    /\ UNCHANGED <<sinkVars, queue, done, closed, workerVars, countVars,
                   accepted, innerLog, acceptedAtClose, ctxFirst>>
    /\ UNCHANGED fileVars

\* Mutant: Close does not wait for the worker.
CloseWaitSkipped(p) ==
    /\ pc[p] = "c_wait"
    /\ Goto(p, "c_inner")
    /\ UNCHANGED <<sinkVars, queue, stop, done, closed, workerVars, countVars,
                   accepted, innerLog, histVars>>
    /\ UNCHANGED fileVars

\* Close: the select, case <-s.done.
CloseWaitDone(p) ==
    /\ pc[p] = "c_wait"
    /\ done
    /\ Goto(p, "c_inner")
    /\ UNCHANGED <<sinkVars, queue, stop, done, closed, workerVars, countVars,
                   accepted, innerLog, histVars>>
    /\ UNCHANGED fileVars

\* Close: the select, case <-ctx.Done().
CloseWaitCancel(p) ==
    /\ pc[p] = "c_wait"
    /\ ctxDone[p]
    /\ Return(p, "Close", CtxErr)
    /\ innerRet' = NoCall
    /\ UNCHANGED <<sinkVars, queue, stop, done, closed, workerVars, countVars,
                   accepted, innerLog, histVars>>
    /\ UNCHANGED fileVars

\* Close: return s.next.Close(ctx).
CloseInner(p) ==
    /\ pc[p] = "c_inner"
    /\ innerLog' = Append(innerLog, InnerCall("Close", Producer, 0))
    /\ innerRet' \in InnerResults
    /\ Return(p, "Close", innerRet')
    /\ UNCHANGED <<sinkVars, queue, stop, done, closed, workerVars, countVars,
                   accepted, histVars>>
    /\ UNCHANGED fileVars

\* ------------------------------------------------------------------- run
\* Mutant: the threshold is reached one entry late.
ThresholdReachedLate(b) == opt.MaxEntries > 0 /\ Len(b) > opt.MaxEntries

\* The count threshold after an append.
ThresholdReached(b) == opt.MaxEntries > 0 /\ Len(b) >= opt.MaxEntries

\* Mutant: the new entry is put in front of the batch.
PrependBatch(b, e) == <<e>> \o b

\* batch = append(batch, e)
AppendBatch(b, e) == Append(b, e)

\* case e := <-s.queue, in the loop named by at ("select" or "drain"):
\* append, and flush when the count threshold is reached.  (buf is made by
\* make(), so e is never nil.)
Receive(at) ==
    /\ wpc = at
    /\ queue # <<>>
    /\ queue' = Tail(queue)
    /\ batch' = AppendBatch(batch, Head(queue))
    /\ IF ThresholdReached(batch')
       THEN /\ wpc' = "flush"
            /\ fi' = 1
            /\ wret' = at
       ELSE UNCHANGED <<wpc, fi, wret>>
    /\ ret' = NoReturn
    /\ innerRet' = NoCall
    /\ UNCHANGED <<sinkVars, stop, done, closed, callVars, countVars,
                   accepted, innerLog, histVars>>
    /\ UNCHANGED fileVars

\* run: case e := <-s.queue of the main select.
WorkerRecv == Receive("select")

\* Mutant: the tick is received and flush() is not called.
WorkerTickIdle ==
    /\ wpc = "select"
    /\ opt.Interval > 0
    /\ ret' = NoReturn
    /\ innerRet' = NoCall
    /\ UNCHANGED <<sinkVars, queue, stop, done, closed, workerVars, callVars,
                   countVars, accepted, innerLog, histVars>>
    /\ UNCHANGED fileVars

\* Mutant: flush() lacks the test for an empty batch.
WorkerTickNoTest ==
    /\ wpc = "select"
    /\ opt.Interval > 0
    /\ wpc' = "flush"
    /\ fi' = 1
    /\ wret' = "select"
    /\ ret' = NoReturn
    /\ innerRet' = NoCall
    /\ UNCHANGED <<sinkVars, queue, stop, done, closed, batch, callVars,
                   countVars, accepted, innerLog, histVars>>
    /\ UNCHANGED fileVars

\* run: case <-flushC (only with Interval > 0): flush().
WorkerTick ==
    /\ wpc = "select"
    /\ opt.Interval > 0
    /\ IF batch = <<>>
       THEN UNCHANGED <<wpc, fi, wret>>
       ELSE /\ wpc' = "flush"
            /\ fi' = 1
            /\ wret' = "select"
    /\ ret' = NoReturn
    /\ innerRet' = NoCall
    /\ UNCHANGED <<sinkVars, queue, stop, done, closed, batch, callVars,
                   countVars, accepted, innerLog, histVars>>
    /\ UNCHANGED fileVars

\* run: case <-s.stop of the main select.
WorkerStop ==
    /\ wpc = "select"
    /\ stop
    /\ wpc' = "drain"
    /\ ret' = NoReturn
    /\ innerRet' = NoCall
    /\ UNCHANGED <<sinkVars, queue, stop, done, closed, batch, fi, wret,
                   callVars, countVars, accepted, innerLog, histVars>>
    /\ UNCHANGED fileVars

\* run: case e := <-s.queue of the drain loop.
WorkerDrainRecv == Receive("drain")

\* run: the drain loop's default: flush(); return.
WorkerDrainDefault ==
    /\ wpc = "drain"
    /\ queue = <<>>
    /\ IF batch = <<>>
       THEN /\ wpc' = "exit"
            /\ UNCHANGED <<fi, wret>>
       ELSE /\ wpc' = "flush"
            /\ fi' = 1
            /\ wret' = "exit"
    /\ ret' = NoReturn
    /\ innerRet' = NoCall
    /\ UNCHANGED <<sinkVars, queue, stop, done, closed, batch, callVars,
                   countVars, accepted, innerLog, histVars>>
    /\ UNCHANGED fileVars

\* Mutant: an error of the inner Write ends the flush; what is left of the
\* batch is dropped.
WorkerFlushWriteStops ==
    /\ wpc = "flush"
    /\ fi <= Len(batch)
    /\ innerLog' = Append(innerLog, InnerCall("Write", Worker, batch[fi]))
    /\ innerRet' \in InnerResults
    /\ IF innerRet' = Nil
       THEN /\ fi' = fi + 1
            /\ UNCHANGED <<batch, wpc, wret>>
       ELSE /\ fi' = 0
            /\ batch' = <<>>
            /\ wpc' = wret
            /\ wret' = "select"
    /\ ret' = NoReturn
    /\ UNCHANGED <<sinkVars, queue, stop, done, closed, callVars, countVars,
                   accepted, histVars>>
    /\ UNCHANGED fileVars

\* flush: one iteration of the range loop, s.next.Write(..., e); the error
\* is discarded.
WorkerFlushWrite ==
    /\ wpc = "flush"
    /\ fi <= Len(batch)
    /\ innerLog' = Append(innerLog, InnerCall("Write", Worker, batch[fi]))
    /\ innerRet' \in InnerResults
    /\ fi' = fi + 1
    /\ ret' = NoReturn
    /\ UNCHANGED <<sinkVars, queue, stop, done, closed, batch, wpc, wret,
                   callVars, countVars, accepted, histVars>>
    /\ UNCHANGED fileVars

\* Mutant: flush returns without batch = batch[:0].  (The log is capped,
\* since the batch is then flushed again without end.)
WorkerFlushFlushKeepsBatch ==
    /\ wpc = "flush"
    /\ fi > Len(batch)
    /\ innerLog' = Append(innerLog, InnerCall("Flush", Worker, 0))
    /\ innerRet' \in InnerResults
    /\ batch' = batch
    /\ fi' = 0
    /\ wpc' = wret
    /\ wret' = "select"
    /\ ret' = NoReturn
    /\ Len(innerLog) < 8
    /\ UNCHANGED <<sinkVars, queue, stop, done, closed, callVars, countVars,
                   accepted, histVars>>
    /\ UNCHANGED fileVars

\* flush: s.next.Flush(...), error discarded; batch = batch[:0]; return.
WorkerFlushFlush ==
    /\ wpc = "flush"
    /\ fi > Len(batch)
    /\ innerLog' = Append(innerLog, InnerCall("Flush", Worker, 0))
    /\ innerRet' \in InnerResults
    /\ batch' = <<>>
    /\ fi' = 0
    /\ wpc' = wret
    /\ wret' = "select"
    /\ ret' = NoReturn
    /\ UNCHANGED <<sinkVars, queue, stop, done, closed, callVars, countVars,
                   accepted, histVars>>
    /\ UNCHANGED fileVars

\* Mutant: run returns without the deferred close(s.done).
WorkerExitNoDone ==
    /\ wpc = "exit"
    /\ done' = done
    /\ wpc' = "exited"
    /\ ret' = NoReturn
    /\ innerRet' = NoCall
    /\ UNCHANGED <<sinkVars, queue, stop, closed, batch, fi, wret, callVars,
                   countVars, accepted, innerLog, histVars>>
    /\ UNCHANGED fileVars

\* run returns: the deferred close(s.done).
WorkerExit ==
    /\ wpc = "exit"
    /\ done' = TRUE
    /\ wpc' = "exited"
    /\ ret' = NoReturn
    /\ innerRet' = NoCall
    /\ UNCHANGED <<sinkVars, queue, stop, closed, batch, fi, wret, callVars,
                   countVars, accepted, innerLog, histVars>>
    /\ UNCHANGED fileVars

\* ------------------------------------------------------------------ Next
Next ==
    \/ \E p \in Producers, c \in BOOLEAN : WriteBegin(p, c)
    \/ \E p \in Producers : WriteTry(p)
    \/ \E p \in Producers : WriteBlockSend(p)
    \/ \E p \in Producers : WriteBlockCancel(p)
    \/ \E p \in Producers : FlushBegin(p)
    \/ \E p \in Producers : FlushCall(p)
    \/ \E p \in Producers, c \in BOOLEAN : CloseBegin(p, c)
    \/ \E p \in Producers : CloseStop(p)
    \/ \E p \in Producers : CloseWaitDone(p)
    \/ \E p \in Producers : CloseWaitCancel(p)
    \/ \E p \in Producers : CloseInner(p)
    \/ \E p \in Producers : CtxCancel(p)
    \/ WorkerRecv
    \/ WorkerTick
    \/ WorkerStop
    \/ WorkerDrainRecv
    \/ WorkerDrainDefault
    \/ WorkerFlushWrite
    \/ WorkerFlushFlush
    \/ WorkerExit

Spec == Init /\ [][Next]_vars

\* ------------------------------------------------------------- scheduling
\* The worker goroutine runs whenever it can; a select picks at random
\* among its ready cases, so a case that stays ready is taken in the end.
WorkerFair ==
    /\ WF_vars(WorkerRecv)
    /\ WF_vars(WorkerTick)
    /\ WF_vars(WorkerStop)
    /\ WF_vars(WorkerDrainRecv)
    /\ WF_vars(WorkerDrainDefault)
    /\ WF_vars(WorkerFlushWrite)
    /\ WF_vars(WorkerFlushFlush)
    /\ WF_vars(WorkerExit)

\* The goroutine of producer p goes on with its call in progress.  (That
\* a call begins, or that a context is cancelled, is up to the caller.)
CallStep(p) ==
    \/ WriteTry(p)
    \/ WriteBlockSend(p)
    \/ WriteBlockCancel(p)
    \/ FlushCall(p)
    \/ CloseStop(p)
    \/ CloseWaitDone(p)
    \/ CloseWaitCancel(p)
    \/ CloseInner(p)

\* The batch sink under the Go scheduler: a goroutine that can run does
\* run, the ticker fires, and every inner-sink call returns.
LiveSpec ==
    /\ Init
    /\ [][Next]_vars
    /\ WorkerFair
    /\ \A p \in Producers : WF_vars(CallStep(p))

\* ------------------------------------------- a full queue at shutdown
\* Three goroutines share one wrapper in Block mode whose queue holds one
\* entry and which has no count threshold: enough for two Writes to be in
\* progress while a third goroutine calls Close.
NumCallers == 3
Callers == 1..NumCallers

BlockInit ==
    /\ given \in [QueueSize: {1}, Backpressure: {BackpressureBlock},
                  MaxEntries: {0}, Interval: Intervals]
    /\ opt = WithBatch(given)
    /\ queue = <<>>
    /\ stop = FALSE
    /\ done = FALSE
    /\ closed = FALSE
    /\ batch = <<>>
    /\ wpc = "select"
    /\ fi = 0
    /\ wret = "select"
    /\ pc = [p \in Callers |-> "idle"]
    /\ cur = [p \in Callers |-> 0]
    /\ ctxDone = [p \in Callers |-> FALSE]
    /\ ret = NoReturn
    /\ innerRet = NoCall
    /\ nWrites = 0
    /\ nFlushes = 0
    /\ accepted = <<>>
    /\ innerLog = <<>>
    /\ stopCloses = 0
    /\ acceptedAtClose = 0
    /\ ctxFirst = FALSE
    /\ FileStart(NoFile)

BlockNext ==
    \/ \E p \in Callers, c \in BOOLEAN : WriteBegin(p, c)
    \/ \E p \in Callers : WriteTry(p)
    \/ \E p \in Callers : WriteBlockSend(p)
    \/ \E p \in Callers : WriteBlockCancel(p)
    \/ \E p \in Callers : FlushBegin(p)
    \/ \E p \in Callers : FlushCall(p)
    \/ \E p \in Callers, c \in BOOLEAN : CloseBegin(p, c)
    \/ \E p \in Callers : CloseStop(p)
    \/ \E p \in Callers : CloseWaitDone(p)
    \/ \E p \in Callers : CloseWaitCancel(p)
    \/ \E p \in Callers : CloseInner(p)
    \/ \E p \in Callers : CtxCancel(p)
    \/ WorkerRecv
    \/ WorkerTick
    \/ WorkerStop
    \/ WorkerDrainRecv
    \/ WorkerDrainDefault
    \/ WorkerFlushWrite
    \/ WorkerFlushFlush
    \/ WorkerExit

BlockSpec ==
    /\ BlockInit
    /\ [][BlockNext]_vars
    /\ WorkerFair
    /\ \A p \in Callers : WF_vars(CallStep(p))

\* ======================================================== rotating file sink
\* ---------------------------------------------------------------- bounds
MaxFileWrites == 2     \* Write calls that get past the closed check, over one run
MaxFaults     == 1     \* kinds of filesystem operation that fail during one call

\* ------------------------------------------------------------- constants
\* shouldRotate: int64(p.MaxSizeMB) * 1024 * 1024
BytesPerMB == 1024 * 1024
\* shouldRotate: time.Duration(p.MaxAgeDays) * 24 * time.Hour, in seconds
SecondsPerDay == 24 * 3600

ErrRotationClosed == "ErrRotationClosed"
ErrRotationNoPath == "ErrRotationNoPath"

\* The filesystem operations of the sink.  gz.* are the steps of
\* compressFile (open source and destination; copy through gzip and close
\* the gzip writer; remove the source), readdir, info and remove those of
\* pruneBackups.
FsOps == {"mkdir", "open", "fstat", "write", "sync", "close", "stat", "rename",
          "gz.open", "gz.copy", "gz.remove", "readdir", "info", "remove"}

\* The error value a failing operation o returns, named after it.
FsErr(o) == o

\* The operations that fail during one call, if attempted, among the
\* operations ops the call can reach.
FaultSets(ops) == {F \in SUBSET ops : Cardinality(F) <= MaxFaults}

\* The operations of openCurrent, of Flush and of Close.
OpenOps  == {"mkdir", "open", "fstat", "close"}
FlushOps == {"sync"}
CloseOps == {"close"}

\* Points in time: s whole seconds, f a fraction below one second.
Instants == << [s |-> 0, f |-> 0], [s |-> 0, f |-> 1],
               [s |-> SecondsPerDay, f |-> 0] >>

\* The options a caller may hand to NewRotatingFileSink.
Paths       == {"", "app.log"}
MaxSizeMBs  == {0, 1}
MaxAgeDaysS == {-1, 1}
MaxBackupsS == {0, 1}
FileOptions == [Path: Paths,
                Policy: [MaxSizeMB: MaxSizeMBs, MaxAgeDays: MaxAgeDaysS,
                         MaxBackups: MaxBackupsS, Compress: BOOLEAN]]

\* len(entry) of the entries written
EntryLens == {1, BytesPerMB + 1}

\* What Path may hold before the sink is constructed: nothing, or a file
\* one byte short of a megabyte, last modified at the first instant.
InitialFiles ==
    {NoFile, [data |-> << [id |-> 0, len |-> BytesPerMB - 1] >>, z |-> FALSE,
              mtime |-> 1, exists |-> TRUE]}

\* ------------------------------------------------------------ filesystem
\* The number of bytes of file contents d, a sequence of chunks.
RECURSIVE DataSize(_)
DataSize(d) == IF d = <<>> THEN 0 ELSE Head(d).len + DataSize(Tail(d))

\* info.Size() and info.ModTime() of a file
StatSize(f) == DataSize(f.data)
StatModTime(f) == f.mtime

\* The state a call works on: the sink s, the directory d, the descriptors
\* h, the operations done so far and the error the current function returns.
World(s, d, h) == [s |-> s, d |-> d, h |-> h, log |-> <<>>, err |-> Nil]

\* Operation o is attempted; it fails if o is among the faults F.
Do(w, o, F) == [w EXCEPT !.log = Append(@, [op |-> o, ok |-> o \notin F])]

\* The current function returns the error of operation o.
Fail(w, o) == [w EXCEPT !.err = FsErr(o)]

\* `_ = f(...)`: the error of a best-effort step is dropped.
BestEffort(w) == [w EXCEPT !.err = Nil]

\* Mutant: the file is opened with O_TRUNC.
OpenFileTruncates(w) ==
    LET fd == w.h.count + 1
        op == w.h.open \cup {fd}
    IN [w EXCEPT
          !.d.active = [data |-> <<>>, z |-> FALSE, mtime |-> now,
                        exists |-> TRUE],
          !.h.open = op,
          !.h.count = fd,
          !.h.peak = IF Cardinality(op) > @ THEN Cardinality(op) ELSE @]

\* os.OpenFile(path, O_CREATE|O_APPEND|O_WRONLY): creates the file if it
\* is missing and yields a new descriptor.
OpenFile(w) ==
    LET fd == w.h.count + 1
        op == w.h.open \cup {fd}
    IN [w EXCEPT
          !.d.active = IF @.exists THEN @
                       ELSE [data |-> <<>>, z |-> FALSE, mtime |-> now,
                             exists |-> TRUE],
          !.h.open = op,
          !.h.count = fd,
          !.h.peak = IF Cardinality(op) > @ THEN Cardinality(op) ELSE @]

\* (*os.File).Close: the descriptor is released whether or not Close
\* returns an error; closing a descriptor that is not open is recorded.
CloseFd(w, fd) ==
    [w EXCEPT !.h.open = @ \ {fd},
              !.h.twice = @ \/ fd \notin w.h.open]

\* file.Write(entry) appending k bytes of entry e to the active file.
AppendDataFront(f, e, k) == [f EXCEPT !.data = << [id |-> e.id, len |-> k] >> \o @,
                                      !.mtime = now]
AppendData(f, e, k) ==
    IF k = 0 THEN f
    ELSE [f EXCEPT !.data = Append(@, [id |-> e.id, len |-> k]), !.mtime = now]

\* ----------------------------------------------------------- openCurrent
\* Mutant: the descriptor is not closed when f.Stat() fails.
openCurrentLeaks(w, F) ==
    LET w1 == Do(w, "mkdir", F)
        w2 == Do(w1, "open", F)
        w3 == Do(OpenFile(w2), "fstat", F)
    IN IF "mkdir" \in F THEN Fail(w1, "mkdir")
       ELSE IF "open" \in F THEN Fail(w2, "open")
       ELSE IF "fstat" \in F THEN Fail(w3, "fstat")
       ELSE [w3 EXCEPT !.s.file = w3.h.count,
                       !.s.size = StatSize(w3.d.active),
                       !.s.created = StatModTime(w3.d.active)]

\* Mutant: s.created is the time of the call, not the file's ModTime.
openCurrentCreatedNow(w, F) ==
    LET w1 == Do(w, "mkdir", F)
        w2 == Do(w1, "open", F)
        w3 == Do(OpenFile(w2), "fstat", F)
    IN IF "mkdir" \in F THEN Fail(w1, "mkdir")
       ELSE IF "open" \in F THEN Fail(w2, "open")
       ELSE IF "fstat" \in F
            THEN Fail(CloseFd(Do(w3, "close", F), w3.h.count), "fstat")
       ELSE [w3 EXCEPT !.s.file = w3.h.count,
                       !.s.size = StatSize(w3.d.active),
                       !.s.created = now]

openCurrent(w, F) ==
    LET w1 == Do(w, "mkdir", F)
        w2 == Do(w1, "open", F)
        w3 == Do(OpenFile(w2), "fstat", F)
    IN IF "mkdir" \in F THEN Fail(w1, "mkdir")
       ELSE IF "open" \in F THEN Fail(w2, "open")
       ELSE IF "fstat" \in F
            THEN Fail(CloseFd(Do(w3, "close", F), w3.h.count), "fstat")
       ELSE [w3 EXCEPT !.s.file = w3.h.count,
                       !.s.size = StatSize(w3.d.active),
                       !.s.created = StatModTime(w3.d.active)]

\* ---------------------------------------------------------- shouldRotate
\* now.Sub(created) >= d seconds, for instants t and c
AtLeast(t, c, d) ==
    \/ Instants[t].s - Instants[c].s > d
    \/ Instants[t].s - Instants[c].s = d /\ Instants[t].f >= Instants[c].f

shouldRotateAtLimit(s, t, incomingBytes) ==
    \/ /\ s.opt.MaxSizeMB > 0
       /\ s.size + incomingBytes >= s.opt.MaxSizeMB * BytesPerMB
    \/ /\ s.opt.MaxAgeDays > 0
       /\ AtLeast(t, s.created, s.opt.MaxAgeDays * SecondsPerDay)

shouldRotate(s, t, incomingBytes) ==
    \/ /\ s.opt.MaxSizeMB > 0
       /\ s.size + incomingBytes > s.opt.MaxSizeMB * BytesPerMB
    \/ /\ s.opt.MaxAgeDays > 0
       /\ AtLeast(t, s.created, s.opt.MaxAgeDays * SecondsPerDay)

\* -------------------------------------------------------- rotatedFilename
\* Path + "." + t.UTC().Format("20060102-150405"): the name keeps the whole
\* seconds of t and drops the fraction; gz tells the ".gz" suffix.
rotatedFilename(t) == [ts |-> Instants[t].s, gz |-> FALSE]

\* os.Rename(path, backup): the active file takes the name backup,
\* replacing a file that has this name.
Rename(w, backup) ==
    [w EXCEPT
       !.d.backups = [n \in DOMAIN @ \cup {backup} |->
                        IF n = backup THEN w.d.active ELSE @[n]],
       !.d.active = NoFile]

\* os.Remove of the files named in D
RemoveAll(b, D) == [n \in DOMAIN b \ D |-> b[n]]

\* ---------------------------------------------------------- compressFile
\* compress/gzip: a stream is a header (written with the first bytes), the
\* deflated bytes, and a trailer that gw.Close() writes, holding the
\* length of the original (modulo 2^32; every file here is shorter).
GzHeader == [id |-> -2, len |-> 10]
GzTrailer(d) == [id |-> -1, len |-> DataSize(d)]

\* What reading the bytes g through gzip.NewReader yields: the original
\* bytes, or an error if the header or the trailer is missing or the
\* length in the trailer is not that of the bytes before it.
Gunzip(g) ==
    LET body == SubSeq(g, 2, Len(g) - 1)
    IN IF /\ Len(g) >= 2
          /\ g[1] = GzHeader
          /\ g[Len(g)] = GzTrailer(body)
       THEN [ok |-> TRUE, data |-> body]
       ELSE [ok |-> FALSE, data |-> <<>>]

\* Mutant: gw.Close() is not called, the trailer is never written.
GzipNoTrailer(f) == [data |-> <<GzHeader>> \o f.data, z |-> TRUE, mtime |-> now,
                     exists |-> TRUE]

\* The gzip stream of file f, written at the current instant: io.Copy(gw,
\* src), then gw.Close().
Gzip(f) == [data |-> <<GzHeader>> \o f.data \o <<GzTrailer(f.data)>>,
            z |-> TRUE, mtime |-> now, exists |-> TRUE]

\* A gzip stream cut short by a failed copy.
GzipCut == [data |-> <<GzHeader>>, z |-> TRUE, mtime |-> now, exists |-> TRUE]

compressFile(w, src, F) ==
    LET dst == [src EXCEPT !.gz = TRUE]
        w1  == Do(w, "gz.open", F)
        w2  == Do(w1, "gz.copy", F)
        w3  == Do(w2, "gz.remove", F)
        put(x, f) == [x EXCEPT !.d.backups =
                         [n \in DOMAIN @ \cup {dst} |-> IF n = dst THEN f ELSE @[n]]]
    IN IF "gz.open" \in F THEN Fail(w1, "gz.open")
       ELSE IF "gz.copy" \in F THEN Fail(put(w2, GzipCut), "gz.copy")
       ELSE IF "gz.remove" \in F
            THEN Fail(put(w3, Gzip(w.d.backups[src])), "gz.remove")
       ELSE LET w4 == put(w3, Gzip(w.d.backups[src]))
            IN [w4 EXCEPT !.d.backups = RemoveAll(@, {src})]

\* ---------------------------------------------------------- pruneBackups
\* Mutant: the k newest files are taken for deletion.
Newest(b, k) ==
    {D \in SUBSET DOMAIN b :
        /\ Cardinality(D) = k
        /\ \A x \in D, y \in DOMAIN b \ D : b[x].mtime >= b[y].mtime}

\* The first k names of the files of b sorted by modification time; files
\* of equal time may come in either order (sort.Slice is not stable).
Oldest(b, k) ==
    {D \in SUBSET DOMAIN b :
        /\ Cardinality(D) = k
        /\ \A x \in D, y \in DOMAIN b \ D : b[x].mtime <= b[y].mtime}

\* The outcomes of pruneBackups(path, maxBackups).  An entry whose Info()
\* fails is skipped: it is neither counted nor deleted.
pruneBackups(w, maxBackups, F) ==
    LET w1 == Do(w, "readdir", F)
        w2 == IF w.d.backups = EmptyDir THEN w1 ELSE Do(w1, "info", F)
        b  == IF "info" \in F THEN EmptyDir ELSE w.d.backups
        N  == Cardinality(DOMAIN b)
    IN IF maxBackups <= 0 THEN {w}
       ELSE IF "readdir" \in F THEN {Fail(w1, "readdir")}
       ELSE IF N <= maxBackups THEN {w2}
       ELSE {IF "remove" \in F THEN Do(w2, "remove", F)
             ELSE [Do(w2, "remove", F) EXCEPT !.d.backups = RemoveAll(@, D)]
             : D \in Oldest(b, N - maxBackups)}

\* ---------------------------------------------------------- rotateLocked
\* Close the current file handle if open.
CloseCurrentKeepsHandle(w, F) ==
    IF w.s.file # NilFile THEN CloseFd(Do(w, "close", F), w.s.file) ELSE w

CloseCurrent(w, F) ==
    IF w.s.file # NilFile
    THEN [CloseFd(Do(w, "close", F), w.s.file) EXCEPT !.s.file = NilFile]
    ELSE w

\* The outcomes of rotateLocked.
rotateLocked(w, F) ==
    LET w1 == Do(CloseCurrent(w, F), "stat", F)
        backup == rotatedFilename(now)
        w2 == Do(w1, "rename", F)
        w3 == Rename(w2, backup)
        w4 == IF w.s.opt.Compress THEN BestEffort(compressFile(w3, backup, F))
              ELSE w3
    IN IF "stat" \in F \/ ~w1.d.active.exists THEN {openCurrent(w1, F)}
       ELSE IF "rename" \in F THEN {Fail(w2, "rename")}
       ELSE {openCurrent(BestEffort(w5), F) :
                w5 \in IF w.s.opt.MaxBackups > 0
                       THEN pruneBackups(w4, w.s.opt.MaxBackups, F)
                       ELSE {w4}}

\* ------------------------------------------------ normalizeRotationPolicy
normalizeRotationPolicy(p) ==
    [p EXCEPT !.MaxSizeMB  = IF @ < 0 THEN 0 ELSE @,
              !.MaxAgeDays = IF @ < 0 THEN 0 ELSE @,
              !.MaxBackups = IF @ < 0 THEN 0 ELSE @]

\* ---------------------------------------------------------------- calls
\* A call ends in world w: operation o (of entry e, with a context that is
\* cancelled or not) returns r.
FileReturn(w, o, e, c, r) ==
    /\ sink' = w.s
    /\ disk' = w.d
    /\ handles' = w.h
    /\ fsLog' = w.log
    /\ fret' = [op |-> o, e |-> e, c |-> c, res |-> r]

\* NewRotatingFileSink(opt), called once
NewRotatingFileSink(o) ==
    /\ ~fhist.called
    /\ \E F \in FaultSets(OpenOps) :
       LET s0 == [NoSink EXCEPT !.opt = normalizeRotationPolicy(o.Policy)]
           w0 == World(NoSink, disk, handles)
           w  == openCurrent(World(s0, disk, handles), F)
           e0 == NoFileReturn.e
       IN IF o.Path = ""
          THEN /\ FileReturn(w0, "New", e0, FALSE, ErrRotationNoPath)
               /\ fhist' = [fhist EXCEPT !.called = TRUE, !.path = o.Path]
          ELSE IF w.err # Nil
          THEN /\ FileReturn([w EXCEPT !.s = NoSink], "New", e0, FALSE, w.err)
               /\ fhist' = [fhist EXCEPT !.called = TRUE, !.path = o.Path]
          ELSE /\ FileReturn([w EXCEPT !.s.built = TRUE], "New", e0, FALSE, Nil)
               /\ fhist' = [fhist EXCEPT !.called = TRUE,
                                         !.path = o.Path,
                                         !.atOpen = w.d.active.data,
                                         !.given = o.Policy]
    /\ UNCHANGED <<now, batchVars>>

\* The number of bytes file.Write reports for an entry of n bytes: all of
\* them, or fewer together with an error.
WrittenLens(n, F) == IF "write" \in F THEN {k \in {0, 1} : k < n} ELSE {n}

\* n, err := s.file.Write(entry); s.size += int64(n)
fileWriteSizeKept(w, e, k, F) ==
    LET w1 == Do(w, "write", F)
        w2 == [w1 EXCEPT !.d.active = AppendData(@, e, k)]
    IN IF "write" \in F THEN Fail(w2, "write") ELSE w2

fileWrite(w, e, k, F) ==
    LET w1 == Do(w, "write", F)
        w2 == [w1 EXCEPT !.d.active = AppendData(@, e, k),
                         !.s.size = @ + k]
    IN IF "write" \in F THEN Fail(w2, "write") ELSE w2

\* if err := s.rotateLocked(); err != nil { return err }
RotationErrorIgnored(w) == Nil
RotationError(w) == w.err

\* s.closed, as Write and Flush read it
IsClosedNever(s) == FALSE
IsClosed(s) == s.closed

\* The history after a Write that got past the closed check and ended in
\* world w: rot tells whether shouldRotate said yes, torn whether
\* file.Write failed after writing a part of the entry.
Written(w, e, rot, torn) ==
    [fhist EXCEPT
       !.writes = @ + 1,
       !.accepted = IF w.err = Nil THEN Append(@, e) ELSE @,
       !.torn = @ \/ torn,
       !.rotations = IF rot THEN @ + 1 ELSE @]

\* The operations a Write of n bytes can reach from the current state: the
\* append; openCurrent if the handle is missing; and, unless the handle is
\* there and shouldRotate says no, those of rotateLocked.
WriteOps(n) ==
    LET p == sink.opt
    IN {"write"}
       \cup (IF sink.file = NilFile THEN OpenOps ELSE {})
       \cup (IF sink.file # NilFile /\ ~shouldRotate(sink, now, n) THEN {}
             ELSE OpenOps \cup {"stat", "rename"}
                  \cup (IF p.Compress THEN {"gz.open", "gz.copy", "gz.remove"}
                        ELSE {})
                  \cup (IF p.MaxBackups > 0 THEN {"readdir", "info", "remove"}
                        ELSE {}))

\* (*rotatingFileSink).Write(ctx, entry), entry of n bytes; c: ctx.Err() is
\* not nil when the call starts.
FileWrite(c, n) ==
    /\ sink.built
    /\ \E F \in FaultSets(IF c \/ sink.closed THEN {} ELSE WriteOps(n)) :
       LET e  == [id |-> fhist.writes + 1, len |-> n]
           w0 == World(sink, disk, handles)
           w1 == IF sink.file = NilFile THEN openCurrent(w0, F) ELSE w0
           rot == shouldRotate(w1.s, now, n)
       IN IF c
          THEN FileReturn(w0, "Write", e, c, CtxErr) /\ UNCHANGED fhist
          ELSE IF IsClosed(sink)
          THEN FileReturn(w0, "Write", e, c, ErrRotationClosed) /\ UNCHANGED fhist
          ELSE /\ fhist.writes < MaxFileWrites
               /\ IF w1.err # Nil
                  THEN /\ FileReturn(w1, "Write", e, c, w1.err)
                       /\ fhist' = Written(w1, e, FALSE, FALSE)
                  ELSE \E w2 \in IF rot THEN rotateLocked(w1, F) ELSE {w1} :
                         IF RotationError(w2) # Nil
                         THEN /\ FileReturn(w2, "Write", e, c, w2.err)
                              /\ fhist' = Written(w2, e, rot, FALSE)
                         ELSE \E k \in WrittenLens(n, F) :
                                LET w3 == fileWrite(w2, e, k, F)
                                IN /\ FileReturn(w3, "Write", e, c, w3.err)
                                   /\ fhist' = Written(w3, e, rot, k > 0 /\ k < n)
    /\ UNCHANGED <<now, batchVars>>

\* (*rotatingFileSink).Flush(ctx)
FileFlush(c) ==
    /\ sink.built
    /\ \E F \in FaultSets(IF c \/ sink.closed \/ sink.file = NilFile THEN {}
                         ELSE FlushOps) :
       LET w0 == World(sink, disk, handles)
           w1 == Do(w0, "sync", F)
           e0 == NoFileReturn.e
       IN IF c THEN FileReturn(w0, "Flush", e0, c, CtxErr)
          ELSE IF IsClosed(sink) THEN FileReturn(w0, "Flush", e0, c, ErrRotationClosed)
          ELSE IF sink.file = NilFile THEN FileReturn(w0, "Flush", e0, c, Nil)
          ELSE FileReturn(w1, "Flush", e0, c,
                          IF "sync" \in F THEN FsErr("sync") ELSE Nil)
    /\ UNCHANGED <<now, fhist, batchVars>>

\* (*rotatingFileSink).Close(ctx)
FileClose(c) ==
    /\ sink.built
    /\ \E F \in FaultSets(IF sink.closed \/ sink.file = NilFile THEN {}
                         ELSE CloseOps) :
       LET w0 == World(sink, disk, handles)
           w1 == [w0 EXCEPT !.s.closed = TRUE]
           w2 == [CloseFd(Do(w1, "close", F), sink.file) EXCEPT !.s.file = NilFile]
           e0 == NoFileReturn.e
       IN IF sink.closed THEN FileReturn(w0, "Close", e0, c, Nil)
          ELSE IF sink.file # NilFile
          THEN FileReturn(w2, "Close", e0, c,
                          IF "close" \in F THEN FsErr("close") ELSE Nil)
          ELSE FileReturn(w1, "Close", e0, c, Nil)
    /\ UNCHANGED <<now, fhist, batchVars>>

\* Time passes between two calls.
FileTick ==
    /\ now < Len(Instants)
    /\ now' = now + 1
    /\ fret' = NoFileReturn
    /\ fsLog' = <<>>
    /\ UNCHANGED <<sink, disk, handles, fhist, batchVars>>

FileInit ==
    /\ given = [QueueSize |-> 0, Backpressure |-> BackpressureBlock,
                MaxEntries |-> 0, Interval |-> 0]
    /\ opt = WithBatch(given)
    /\ BatchStart
    /\ \E a \in InitialFiles : FileStart(a)

FileNext ==
    \/ \E o \in FileOptions : NewRotatingFileSink(o)
    \/ \E c \in BOOLEAN, n \in EntryLens : FileWrite(c, n)
    \/ \E c \in BOOLEAN : FileFlush(c)
    \/ \E c \in BOOLEAN : FileClose(c)
    \/ FileTick

FileSpec == FileInit /\ [][FileNext]_vars

\* ------------------------------------------------- retention, in isolation
\* pruneBackups is a package-level function: it is also called directly on
\* a log directory that already holds rotated files.  Specification:
\* PruneSpec, a sink constructed over such a directory.

\* Backup limits of the sinks of PruneSpec
PruneLimits == {1, 2}

\* Names "<base>.<timestamp>" found in the directory at construction: one
\* of an earlier second, and the name of a rotation in second 0.
OldNames == {[ts |-> -1, gz |-> FALSE], [ts |-> 0, gz |-> FALSE]}

\* A rotated file found in the directory, last modified at instant t.
OldFile(n, t) == [data |-> << [id |-> 0, len |-> 1] >>, z |-> n.gz,
                  mtime |-> t, exists |-> TRUE]

\* The directories found at construction: any of the names, each file
\* last modified at any instant.
OldDirs ==
    UNION {{[n \in D |-> OldFile(n, m[n])] : m \in [D -> DOMAIN Instants]} :
             D \in SUBSET OldNames}

\* The policies of the sinks of PruneSpec: a size limit and a backup limit.
PrunePolicies == [MaxSizeMB: {1}, MaxAgeDays: {0}, MaxBackups: PruneLimits,
                  Compress: BOOLEAN]

\* pruneBackups(s.path, s.opt.Policy.MaxBackups), called on its own
PruneCall ==
    /\ sink.built
    /\ \E F \in FaultSets({"readdir", "info", "remove"}) :
       \E w \in pruneBackups(World(sink, disk, handles), sink.opt.MaxBackups, F) :
          FileReturn(w, "pruneBackups", NoFileReturn.e, FALSE, w.err)
    /\ UNCHANGED <<now, fhist, batchVars>>

\* NewRotatingFileSink has returned a sink over a directory that holds
\* rotated files.
PruneInit ==
    /\ given = [QueueSize |-> 0, Backpressure |-> BackpressureBlock,
                MaxEntries |-> 0, Interval |-> 0]
    /\ opt = WithBatch(given)
    /\ BatchStart
    /\ now = 1
    /\ fret = NoFileReturn
    /\ fsLog = <<>>
    /\ \E a \in InitialFiles \ {NoFile}, b \in OldDirs, p \in PrunePolicies :
         LET s0 == [NoSink EXCEPT !.opt = normalizeRotationPolicy(p)]
             d0 == [active |-> a, backups |-> b]
             h0 == [open |-> {}, count |-> 0, peak |-> 0, twice |-> FALSE]
             w  == openCurrent(World(s0, d0, h0), {})
         IN /\ sink = [w.s EXCEPT !.built = TRUE]
            /\ disk = w.d
            /\ handles = w.h
            /\ fhist = [called |-> TRUE, writes |-> 0, accepted |-> <<>>,
                        torn |-> FALSE, rotations |-> 0,
                        atOpen |-> w.d.active.data, given |-> p,
                        path |-> "app.log"]

PruneNext ==
    \/ PruneCall
    \/ \E n \in EntryLens : FileWrite(FALSE, n)
    \/ FileTick

PruneSpec == PruneInit /\ [][PruneNext]_vars

\* ------------------------------------------------- concurrent callers
\* Specification ConcSpec: the goroutines of Producers call Write, Flush
\* and Close of one rotating file sink.  pc[p] is where the call of p is,
\* cur[p] the entry of its Write; sink.mu is the goroutine that holds
\* s.mu, or 0.

\* The policies of the sinks of ConcSpec: a size limit, with and without
\* a backup limit.
ConcPolicies == [MaxSizeMB: {1}, MaxAgeDays: {0}, MaxBackups: MaxBackupsS,
                 Compress: {FALSE}]

\* The batch sink's variables that the callers of ConcSpec do not use.
concFrame == <<given, opt, innerRet, queue, stop, done, closed, batch, wpc,
               fi, wret, ctxDone, ret, nWrites, nFlushes, accepted, innerLog,
               stopCloses, acceptedAtClose, ctxFirst>>

\* s.mu is free
Unlocked == 0

\* A step inside a call ends in world w; the call goes on.
Step(w) ==
    /\ sink' = w.s
    /\ disk' = w.d
    /\ handles' = w.h
    /\ fsLog' = w.log
    /\ fret' = NoFileReturn

\* The deferred s.mu.Unlock() of a call that ends in world w.
Unlock(w) == [w EXCEPT !.s.mu = Unlocked]

\* The call of p is at statement at; p is back with its caller.
At(p, at) == pc' = [pc EXCEPT ![p] = at]
Back(p) == pc' = [pc EXCEPT ![p] = "idle"] /\ cur' = [cur EXCEPT ![p] = 0]

\* Write: ctx.Err(), before the lock.  n: len(entry); c: ctx is cancelled.
ConcWriteBegin(p, c, n) ==
    /\ pc[p] = "idle"
    /\ LET e == [id |-> fhist.writes + 1, len |-> n]
       IN IF c
          THEN /\ FileReturn(World(sink, disk, handles), "Write", e, c, CtxErr)
               /\ UNCHANGED <<pc, cur, fhist>>
          ELSE /\ fhist.writes < MaxFileWrites
               /\ fhist' = [fhist EXCEPT !.writes = @ + 1]
               /\ At(p, "w_lock")
               /\ cur' = [cur EXCEPT ![p] = e]
               /\ Step(World(sink, disk, handles))
    /\ UNCHANGED <<now, concFrame>>

\* Flush: ctx.Err(), before the lock.
ConcFlushBegin(p, c) ==
    /\ pc[p] = "idle"
    /\ IF c
       THEN /\ FileReturn(World(sink, disk, handles), "Flush", NoFileReturn.e, c,
                          CtxErr)
            /\ UNCHANGED pc
       ELSE /\ At(p, "f_lock")
            /\ Step(World(sink, disk, handles))
    /\ UNCHANGED <<now, cur, fhist, concFrame>>

\* Close: ctx is not read.
ConcCloseBegin(p) ==
    /\ pc[p] = "idle"
    /\ At(p, "c_lock")
    /\ Step(World(sink, disk, handles))
    /\ UNCHANGED <<now, cur, fhist, concFrame>>

\* The statement after s.mu.Lock() in Write, Flush and Close.
AfterLock(at) ==
    CASE at = "w_lock" -> "w_check"
      [] at = "f_lock" -> "f_body"
      [] at = "c_lock" -> "c_body"

\* Mutant: Lock returns although another goroutine holds the mutex.
ConcLockNoWait(p) ==
    /\ pc[p] \in {"w_lock", "f_lock", "c_lock"}
    /\ At(p, AfterLock(pc[p]))
    /\ Step(World([sink EXCEPT !.mu = p], disk, handles))
    /\ UNCHANGED <<now, cur, fhist, concFrame>>

\* s.mu.Lock(): returns once no goroutine holds the mutex.
ConcLock(p) ==
    /\ pc[p] \in {"w_lock", "f_lock", "c_lock"}
    /\ sink.mu = Unlocked
    /\ At(p, AfterLock(pc[p]))
    /\ Step(World([sink EXCEPT !.mu = p], disk, handles))
    /\ UNCHANGED <<now, cur, fhist, concFrame>>

\* Write: the closed check, the lazy reopen and shouldRotate.
ConcWriteCheck(p) ==
    /\ pc[p] = "w_check"
    /\ \E F \in FaultSets(IF sink.closed \/ sink.file # NilFile THEN {}
                         ELSE {"open"}) :
       LET w0 == World(sink, disk, handles)
           w1 == IF sink.file = NilFile THEN openCurrent(w0, F) ELSE w0
       IN IF IsClosed(sink)
          THEN /\ FileReturn(Unlock(w0), "Write", cur[p], FALSE, ErrRotationClosed)
               /\ Back(p)
          ELSE IF w1.err # Nil
          THEN /\ FileReturn(Unlock(w1), "Write", cur[p], FALSE, w1.err)
               /\ Back(p)
          ELSE /\ Step(w1)
               /\ At(p, IF shouldRotate(w1.s, now, cur[p].len) THEN "w_rotate"
                        ELSE "w_write")
               /\ UNCHANGED cur
    /\ UNCHANGED <<now, fhist, concFrame>>

\* rotateLocked: s.file.Close(); s.file = nil.
ConcRotateClose(p) ==
    /\ pc[p] = "w_rotate"
    /\ Step(CloseCurrent(World(sink, disk, handles), {}))
    /\ At(p, "w_rename")
    /\ UNCHANGED <<now, cur, fhist, concFrame>>

\* rotateLocked, from os.Stat(s.path) to the return of openCurrent.
ConcRotateRest(p) ==
    /\ pc[p] = "w_rename"
    /\ \E F \in FaultSets({"rename", "open"}) :
       \E w \in rotateLocked(World(sink, disk, handles), F) :
          IF RotationError(w) # Nil
          THEN /\ FileReturn(Unlock(w), "Write", cur[p], FALSE, w.err)
               /\ Back(p)
          ELSE /\ Step(w)
               /\ At(p, "w_write")
               /\ UNCHANGED cur
    /\ fhist' = [fhist EXCEPT !.rotations = @ + 1]
    /\ UNCHANGED <<now, concFrame>>

\* The lengths of the first write(2) of an entry of n bytes: file.Write
\* repeats write(2) until the whole entry is written.
FirstLens(n) == {k \in {1, n} : k <= n}

\* s.file.Write(entry): the first write(2), and the return if it wrote the
\* whole entry or failed.
ConcAppend(p) ==
    /\ pc[p] = "w_write"
    /\ \E F \in FaultSets({"write"}) :
       \E k \in IF "write" \in F THEN WrittenLens(cur[p].len, F)
                ELSE FirstLens(cur[p].len) :
          LET w0 == World(sink, disk, handles)
              w1 == fileWrite(w0, cur[p], k, F)
          IN IF w1.err # Nil \/ k = cur[p].len
             THEN /\ FileReturn(Unlock(w1), "Write", cur[p], FALSE, w1.err)
                  /\ Back(p)
                  /\ fhist' = [fhist EXCEPT
                                  !.accepted = IF w1.err = Nil
                                               THEN Append(@, cur[p]) ELSE @,
                                  !.torn = @ \/ (w1.err # Nil /\ k > 0)]
             ELSE /\ Step(w1)
                  /\ At(p, "w_rest")
                  /\ UNCHANGED <<cur, fhist>>
    /\ UNCHANGED <<now, concFrame>>

\* s.file.Write(entry): the write(2) of the rest of the entry.
ConcAppendRest(p) ==
    /\ pc[p] = "w_rest"
    /\ LET k  == cur[p].len - 1
           w1 == fileWrite(World(sink, disk, handles), cur[p], k, {})
       IN /\ FileReturn(Unlock(w1), "Write", cur[p], FALSE, Nil)
          /\ Back(p)
          /\ fhist' = [fhist EXCEPT !.accepted = Append(@, cur[p])]
    /\ UNCHANGED <<now, concFrame>>

\* Flush, under the lock.
ConcFlushBody(p) ==
    /\ pc[p] = "f_body"
    /\ \E F \in FaultSets(IF sink.closed \/ sink.file = NilFile THEN {}
                         ELSE FlushOps) :
       LET w0 == World(sink, disk, handles)
           w1 == Do(w0, "sync", F)
           e0 == NoFileReturn.e
       IN IF IsClosed(sink)
          THEN FileReturn(Unlock(w0), "Flush", e0, FALSE, ErrRotationClosed)
          ELSE IF sink.file = NilFile
          THEN FileReturn(Unlock(w0), "Flush", e0, FALSE, Nil)
          ELSE FileReturn(Unlock(w1), "Flush", e0, FALSE,
                          IF "sync" \in F THEN FsErr("sync") ELSE Nil)
    /\ Back(p)
    /\ UNCHANGED <<now, fhist, concFrame>>

\* Close, under the lock.
ConcCloseBody(p) ==
    /\ pc[p] = "c_body"
    /\ \E F \in FaultSets(IF sink.closed \/ sink.file = NilFile THEN {}
                         ELSE CloseOps) :
       LET w0 == World(sink, disk, handles)
           w1 == [w0 EXCEPT !.s.closed = TRUE]
           w2 == [CloseFd(Do(w1, "close", F), sink.file) EXCEPT !.s.file = NilFile]
           e0 == NoFileReturn.e
       IN IF sink.closed THEN FileReturn(Unlock(w0), "Close", e0, FALSE, Nil)
          ELSE IF sink.file # NilFile
          THEN FileReturn(Unlock(w2), "Close", e0, FALSE,
                          IF "close" \in F THEN FsErr("close") ELSE Nil)
          ELSE FileReturn(Unlock(w1), "Close", e0, FALSE, Nil)
    /\ Back(p)
    /\ UNCHANGED <<now, fhist, concFrame>>

\* Time passes.
ConcTick ==
    /\ now < Len(Instants)
    /\ now' = now + 1
    /\ fret' = NoFileReturn
    /\ fsLog' = <<>>
    /\ UNCHANGED <<sink, disk, handles, fhist, pc, cur, concFrame>>

\* NewRotatingFileSink has returned a sink; no call is in progress.
ConcInit ==
    /\ given = [QueueSize |-> 0, Backpressure |-> BackpressureBlock,
                MaxEntries |-> 0, Interval |-> 0]
    /\ opt = WithBatch(given)
    /\ BatchStart
    /\ now = 1
    /\ fret = NoFileReturn
    /\ fsLog = <<>>
    /\ \E a \in InitialFiles, p \in ConcPolicies :
         LET s0 == [NoSink EXCEPT !.opt = normalizeRotationPolicy(p)]
             d0 == [active |-> a, backups |-> EmptyDir]
             h0 == [open |-> {}, count |-> 0, peak |-> 0, twice |-> FALSE]
             w  == openCurrent(World(s0, d0, h0), {})
         IN /\ sink = [w.s EXCEPT !.built = TRUE]
            /\ disk = w.d
            /\ handles = w.h
            /\ fhist = [called |-> TRUE, writes |-> 0, accepted |-> <<>>,
                        torn |-> FALSE, rotations |-> 0,
                        atOpen |-> w.d.active.data, given |-> p,
                        path |-> "app.log"]

ConcNext ==
    \/ \E p \in Producers, c \in BOOLEAN, n \in EntryLens : ConcWriteBegin(p, c, n)
    \/ \E p \in Producers, c \in BOOLEAN : ConcFlushBegin(p, c)
    \/ \E p \in Producers : ConcCloseBegin(p)
    \/ \E p \in Producers : ConcLock(p)
    \/ \E p \in Producers : ConcWriteCheck(p)
    \/ \E p \in Producers : ConcRotateClose(p)
    \/ \E p \in Producers : ConcRotateRest(p)
    \/ \E p \in Producers : ConcAppend(p)
    \/ \E p \in Producers : ConcAppendRest(p)
    \/ \E p \in Producers : ConcFlushBody(p)
    \/ \E p \in Producers : ConcCloseBody(p)
    \/ ConcTick

ConcSpec == ConcInit /\ [][ConcNext]_vars

\* ================================================================ claims
Range(s) == {s[i] : i \in DOMAIN s}

IsPrefix(s, t) ==
    /\ Len(s) <= Len(t)
    /\ \A i \in 1..Len(s) : s[i] = t[i]

IsInnerWrite(c) == c.op = "Write"

\* The entries the inner sink's Write received, in call order.
Delivered ==
    LET w == SelectSeq(innerLog, IsInnerWrite)
    IN  [i \in 1..Len(w) |-> w[i].e]

\* The inner sink's Close has been called.
InnerClosed == \E i \in DOMAIN innerLog : innerLog[i].op = "Close"

\* The queue capacity the specification states for the given options.
StatedCapacity == IF given.QueueSize <= 0 THEN 1024 ELSE given.QueueSize

\* The first Close call is between its Swap and its return.
ClosePcs == {"c_stop", "c_wait", "c_inner"}

\* A call that fails fast begins and returns in one step: no call in
\* progress moves, and the step returns o.
FailsFast(o) == pc' = pc /\ ret'.op = o

\* ---------------------------------------------------------------- C1
\* C1: entries reach the inner sink's Write in exactly the order in which
\* they entered the queue: at every moment the sequence of entries the inner
\* sink has received is an initial segment of the sequence of entries in
\* enqueue order (so if a was enqueued before b, the inner sink gets a
\* before b), whatever the interleaving of Writes, worker steps, ticks and
\* Close.
C1_DeliveryInEnqueueOrder == IsPrefix(Delivered, accepted)

\* Two entries enqueued against the order of their Write calls, both
\* delivered.
C1_Witness == accepted = <<2, 1>> /\ Delivered = accepted

\* ---------------------------------------------------------------- C2
\* C2: the queue never holds more entries than the configured capacity
\* (QueueSize, or 1024 when QueueSize <= 0), and a Write that returns
\* ErrQueueFull or a cancellation error has not enqueued its entry.
C2_QueueWithinCapacity ==
    /\ Len(queue) <= StatedCapacity
    /\ (ret.op = "Write" /\ ret.res \in {ErrQueueFull, CtxErr})
          => ret.e \notin Range(accepted)

\* A blocked Write gives up on a full queue.
C2_Witness ==
    /\ Len(queue) = StatedCapacity
    /\ ret.op = "Write"
    /\ ret.res = CtxErr

\* ---------------------------------------------------------------- C3
\* C3: once the first Close has called the inner sink's Close (which is
\* when it returns without a cancellation error), every entry that was
\* enqueued before Close's Swap has been passed to the inner sink's Write,
\* the worker has terminated, and no inner-sink call of the worker follows
\* the inner Close.
C3_CloseDrainsThenClosesInner ==
    InnerClosed =>
        /\ Len(Delivered) >= acceptedAtClose
        /\ \A i \in 1..acceptedAtClose : Delivered[i] = accepted[i]
        /\ wpc = "exited"
        /\ done
        /\ \A i, j \in DOMAIN innerLog :
              (i < j /\ innerLog[i].op = "Close") => innerLog[j].by # Worker

\* Two entries accepted before Close, with no count or time trigger: they
\* are delivered by the drain alone, then the inner sink is closed.
C3_Witness ==
    /\ InnerClosed
    /\ acceptedAtClose = 2
    /\ given.MaxEntries = 0
    /\ given.Interval = 0

\* ---------------------------------------------------------------- C4
\* C4: once the closed flag is set, no Write or Flush call gets past its
\* closed check: every such call that starts returns ErrBatchClosed in its
\* first step, leaving the queue and the inner sink untouched.
C4_ClosedFailsFast ==
    [][closed =>
        /\ \A p \in Producers :
              pc[p] = "idle" => pc'[p] \notin {"w_try", "f_call"}
        /\ (FailsFast("Write") \/ FailsFast("Flush")) =>
              /\ ret'.res = ErrBatchClosed
              /\ UNCHANGED <<queue, accepted, innerLog, batch>>]_vars

\* A Write after Close has returned ErrBatchClosed while entries accepted
\* earlier are still queued.
C4_Witness ==
    /\ closed
    /\ ret.op = "Write"
    /\ ret.res = ErrBatchClosed
    /\ queue # <<>>

\* ---------------------------------------------------------------- C5
\* C5: in Drop or Shed mode, a Write whose non-blocking enqueue finds the
\* queue full returns ErrQueueFull in that very step (it never blocks) and
\* leaves the queue unchanged; Shed and Drop behave alike.
C5_DropShedRejects ==
    [][\A p \in Producers :
          ( /\ pc[p] = "w_try"
            /\ pc'[p] # "w_try"
            /\ Len(queue) >= StatedCapacity
            /\ given.Backpressure \in {BackpressureDrop, BackpressureShed} )
          => /\ pc'[p] = "idle"
             /\ ret' = Returned("Write", cur[p], ErrQueueFull)
             /\ UNCHANGED <<queue, accepted>>]_vars

\* A Write rejected in Shed mode on a full queue.
C5_Witness ==
    /\ given.Backpressure = BackpressureShed
    /\ ret.op = "Write"
    /\ ret.res = ErrQueueFull
    /\ Len(queue) = StatedCapacity

\* ---------------------------------------------------------------- C6
\* The mode given to WithBatch is Block or none of the three modes.
BlockingMode == given.Backpressure \notin {BackpressureDrop, BackpressureShed}

\* C6: with Block, or a mode that is none of the three, a Write that finds
\* the queue full blocks, and leaves the blocking select only by enqueuing
\* its entry (returning success) or, its context cancelled, by returning
\* the context's error without enqueuing; it never returns ErrQueueFull.
\* In Drop or Shed mode no Write is ever blocked.
C6_BlockWaitsOrCancels ==
    /\ [](BlockingMode => ret.res # ErrQueueFull)
    /\ [](\A p \in Producers : pc[p] = "w_block" => BlockingMode)
    /\ [][\A p \in Producers :
             /\ ( /\ BlockingMode
                  /\ pc[p] = "w_try"
                  /\ pc'[p] # "w_try"
                  /\ Len(queue) >= StatedCapacity )
                => (pc'[p] = "w_block" /\ UNCHANGED <<queue, accepted>>)
             /\ (pc[p] = "w_block" /\ pc'[p] # "w_block")
                => \/ /\ ret' = Returned("Write", cur[p], Nil)
                      /\ queue' = Append(queue, cur[p])
                      /\ Len(queue) < StatedCapacity
                   \/ /\ ctxDone[p]
                      /\ ret' = Returned("Write", cur[p], CtxErr)
                      /\ UNCHANGED <<queue, accepted>>]_vars

\* With an unrecognized mode, a Write that was blocked on a full queue has
\* returned the context's error.
C6_Witness ==
    /\ given.Backpressure = BackpressureUnknown
    /\ ret.op = "Write"
    /\ ret.res = CtxErr
    /\ Len(queue) = StatedCapacity

\* ---------------------------------------------------------------- C7
\* How many times the inner sink's Close has been called.
InnerCloseCalls == Cardinality({i \in DOMAIN innerLog : innerLog[i].op = "Close"})

\* C7: over any number of Close calls, one call at most is between the
\* Swap and its return, s.stop is closed exactly once (never twice, and
\* once as soon as that call is past close(s.stop)), the inner sink's Close
\* is called at most once, and every Close call after the first returns nil
\* in its first step and changes nothing else.
C7_CloseOnce ==
    /\ [](/\ stopCloses <= 1
          /\ stop <=> (stopCloses = 1)
          /\ Cardinality({p \in Producers : pc[p] \in ClosePcs}) <= 1
          /\ InnerCloseCalls <= 1
          /\ (closed /\ \A p \in Producers : pc[p] # "c_stop") => stopCloses = 1)
    /\ [][closed =>
            /\ closed'
            /\ \A p \in Producers : pc'[p] = "c_stop" => pc[p] = "c_stop"
            /\ FailsFast("Close") =>
                  /\ ret'.res = Nil
                  /\ UNCHANGED <<queue, stop, done, batch, wpc, fi, accepted,
                                 innerLog, stopCloses>>]_vars

\* A second Close has returned nil while the first one waits for the worker.
C7_Witness ==
    /\ ret = Returned("Close", 0, Nil)
    /\ innerRet = NoCall
    /\ \E p \in Producers : pc[p] = "c_wait"

\* ---------------------------------------------------------------- C8
\* C8 (first half, as stated): if the context of the first Close call is
\* cancelled before the worker reports completion, that call returns the
\* context's error: it never goes on to call the inner sink's Close.
C8_CancelledFirstReturnsCtxErr ==
    (ret.op = "Close" /\ innerRet # NoCall) => ~ctxFirst

\* ---------------------------------------------------------------- C9
\* C9: a Flush that found the sink open calls the inner sink's Flush once
\* and returns what it returned; the step changes neither the queue nor the
\* worker's pending batch.  A Flush on an open sink never fails fast.
C9_FlushDelegates ==
    [][/\ \A p \in Producers :
             (pc[p] = "f_call" /\ pc'[p] # "f_call")
             => /\ innerLog' = Append(innerLog, InnerCall("Flush", Producer, 0))
                /\ innerRet' \in InnerResults
                /\ ret' = Returned("Flush", 0, innerRet')
                /\ UNCHANGED <<queue, accepted, batch, fi, wpc>>
       /\ FailsFast("Flush") => closed]_vars

\* Flush has returned the inner sink's error while one entry is queued and
\* one is pending in the worker's batch.
C9_Witness ==
    /\ ret = Returned("Flush", 0, InnerErr)
    /\ queue # <<>>
    /\ batch # <<>>

\* --------------------------------------------------------------- C10
\* C10 as stated: every call of the inner sink's Write and Flush is made
\* by the worker.
C10_OnlyWorkerCallsInner ==
    \A i \in DOMAIN innerLog :
        innerLog[i].op \in {"Write", "Flush"} => innerLog[i].by = Worker

\* A step of a Write call: it starts, fails fast, or moves on.
WriteStep ==
    \/ FailsFast("Write")
    \/ \E p \in Producers :
          /\ pc'[p] # pc[p]
          /\ pc[p] \in {"w_try", "w_block"} \/ pc'[p] = "w_try"

\* C10, amended: every call of the inner sink's Write is made by the
\* worker, and no step of a Write call on the wrapper calls the inner sink;
\* the inner sink's Flush is called by the worker and, directly, by a
\* producer's Flush call that passed the closed check, and by nothing else.
C10_OnlyWorkerWritesInner ==
    /\ [](\A i \in DOMAIN innerLog :
             innerLog[i].op = "Write" => innerLog[i].by = Worker)
    /\ [][/\ WriteStep => innerLog' = innerLog
          /\ ( /\ innerLog' # innerLog
               /\ innerLog'[Len(innerLog')] = InnerCall("Flush", Producer, 0) )
             => \E p \in Producers : pc[p] = "f_call" /\ pc'[p] = "idle"]_vars

\* The inner sink has had a Write from the worker and then a Flush made by
\* a producer's own call.
C10_Witness ==
    \E i, j \in DOMAIN innerLog :
        /\ i < j
        /\ innerLog[i] = InnerCall("Write", Worker, innerLog[i].e)
        /\ innerLog[j] = InnerCall("Flush", Producer, 0)

\* ===================================================== claims: file sink
\* Operation o was attempted, or failed, in the sequence log of operations.
LogOp(log, o) == \E i \in DOMAIN log : log[i].op = o
LogFailed(log, o) == \E i \in DOMAIN log : log[i].op = o /\ ~log[i].ok

\* The call ran rotateLocked, which always begins by os.Stat(s.path).
RotatedIn(log) == LogOp(log, "stat")

\* --------------------------------------------------------------- C11
\* C11 as stated: once the sink is closed, every Write and Flush returns
\* ErrRotationClosed and does no file I/O.
C11_ClosedReturnsErrRotationClosed ==
    (sink.closed /\ fret.op \in {"Write", "Flush"})
        => (fret.res = ErrRotationClosed /\ fsLog = <<>>)

\* C11, amended: once the sink is closed, every Write and Flush does no
\* file I/O and returns ErrRotationClosed, or the context's error if its
\* context is already cancelled; every later Close returns nil; no call
\* touches the filesystem or the sink's state, the sink stays closed and
\* holds no file handle.
C11_ClosedFailsFast ==
    /\ []((sink.closed /\ fret.op \in {"Write", "Flush"})
            => /\ fret.res = IF fret.c THEN CtxErr ELSE ErrRotationClosed
               /\ fsLog = <<>>)
    /\ [](sink.closed => (sink.file = NilFile /\ handles.open = {}))
    /\ [][sink.closed =>
            /\ sink' = sink
            /\ disk' = disk
            /\ handles' = handles
            /\ fsLog' = <<>>
            /\ fret'.op = "Close" => fret'.res = Nil]_vars

\* A Write with a live context has returned ErrRotationClosed after two
\* entries were written and the sink was closed.
C11_Witness ==
    /\ sink.closed
    /\ fret.op = "Write"
    /\ ~fret.c
    /\ fret.res = ErrRotationClosed
    /\ Len(fhist.accepted) = 2

\* --------------------------------------------------------------- C12
\* C12: the sink never has more than one descriptor open on the active
\* file, neither between calls nor at any point inside a call (rotation,
\* failed rotation, reopen of a missing handle, Close): the only open
\* descriptor is s.file, no descriptor is closed twice, and a closed sink
\* has none open.
C12_AtMostOneHandle ==
    /\ handles.peak <= 1
    /\ Cardinality(handles.open) <= 1
    /\ handles.open = IF sink.file = NilFile THEN {} ELSE {sink.file}
    /\ ~handles.twice
    /\ sink.closed => handles.open = {}

\* The sink was closed after a rotation that failed at the rename and a
\* Write that reopened the file: it has opened three descriptors or more.
C12_Witness ==
    /\ sink.closed
    /\ fret.op = "Close"
    /\ handles.count >= 3
    /\ fhist.rotations >= 1
    /\ fhist.writes > Len(fhist.accepted)

\* --------------------------------------------------------------- C13
\* C13: whenever the sink holds a file handle (after construction, after
\* every Write that returned success, after every rotation and every
\* reopen, and also after a Write that failed part-way), the active file
\* exists and s.size is its size on disk.
C13_SizeMatchesDisk ==
    (sink.built /\ sink.file # NilFile)
        => /\ disk.active.exists
           /\ sink.size = DataSize(disk.active.data)

\* The sink was opened on an existing file one byte short of a megabyte and
\* one byte was appended without rotation.
C13_Witness ==
    /\ fret.op = "Write"
    /\ fret.res = Nil
    /\ ~RotatedIn(fsLog)
    /\ sink.size = BytesPerMB

\* --------------------------------------------------------------- C14
\* C14: as long as no Write has triggered a rotation and no Write has
\* failed after writing a part of its entry, the active file holds what it
\* held when the sink was constructed, followed by the entries of the
\* Writes that returned success, whole and in call order.
C14_AppendsInCallOrder ==
    (sink.built /\ fhist.rotations = 0 /\ ~fhist.torn)
        => /\ disk.active.exists
           /\ disk.active.data = fhist.atOpen \o fhist.accepted

\* Two entries were appended, without rotation, to a file that was not
\* empty when the sink was constructed.
C14_Witness ==
    /\ sink.built
    /\ fhist.rotations = 0
    /\ fhist.atOpen # <<>>
    /\ Len(fhist.accepted) = 2
    /\ fhist.accepted[1].id = 1

\* --------------------------------------------------------------- C15
\* The size and the creation time the rotation check of a Write sees: those
\* of the sink, or, if the handle is missing, those the reopen reads from
\* the file at the path (a file it creates is empty and new).
EvalSize ==
    IF sink.file # NilFile THEN sink.size
    ELSE IF disk.active.exists THEN DataSize(disk.active.data) ELSE 0
EvalCreated ==
    IF sink.file # NilFile THEN sink.created
    ELSE IF disk.active.exists THEN disk.active.mtime ELSE now

\* The rotation condition for an entry of n bytes, from the policy as it
\* was given to NewRotatingFileSink.
Eligible(n) ==
    \/ /\ fhist.given.MaxSizeMB > 0
       /\ EvalSize + n > fhist.given.MaxSizeMB * 1024 * 1024
    \/ /\ fhist.given.MaxAgeDays > 0
       /\ \/ Instants[now].s - Instants[EvalCreated].s
                > fhist.given.MaxAgeDays * 24 * 3600
          \/ /\ Instants[now].s - Instants[EvalCreated].s
                   = fhist.given.MaxAgeDays * 24 * 3600
             /\ Instants[now].f >= Instants[EvalCreated].f

\* The Write of this step gets as far as the rotation check: its context is
\* live, the sink is open and, if the handle was missing, the reopen
\* (MkdirAll, OpenFile, Stat) succeeded.
ReachesRotationCheck ==
    /\ fret'.op = "Write"
    /\ ~fret'.c
    /\ ~sink.closed
    /\ sink.file = NilFile =>
          /\ Len(fsLog') >= 3
          /\ \A i \in 1..3 : fsLog'[i].ok

\* C15: a Write that gets as far as the rotation check rotates if and only
\* if the size limit is positive and size + len(entry) exceeds it, or the
\* age limit is positive and the file is at least that old; a Write that
\* does not get there never rotates; and a rotation comes before the
\* append.  A limit of zero or below never causes a rotation.
C15_RotatesIffEligible ==
    [][fret'.op = "Write" =>
         /\ RotatedIn(fsLog') <=> (ReachesRotationCheck /\ Eligible(fret'.e.len))
         /\ \A i, j \in DOMAIN fsLog' :
               (fsLog'[i].op = "stat" /\ fsLog'[j].op = "write") => i < j]_vars

\* The second Write has rotated on age alone: the size limit is disabled.
C15_Witness ==
    /\ fret.op = "Write"
    /\ fret.res = Nil
    /\ RotatedIn(fsLog)
    /\ fhist.given.MaxSizeMB = 0
    /\ fhist.given.MaxAgeDays = 1
    /\ fhist.rotations = 1
    /\ Len(fhist.accepted) = 2

\* --------------------------------------------------------------- C16
\* Every filesystem operation in the sequence log succeeded.
AllOk(log) == \A i \in DOMAIN log : log[i].ok

\* C16 (as stated, for a sink without compression and without pruning, and
\* a Write during which no filesystem operation fails): if the tracked size
\* is at or above the size limit and one more Write succeeds, exactly one
\* new backup file appears, it holds what the active file held, and the
\* active file then holds exactly the entry just written.
C16_OneNewBackup ==
    [][( /\ sink.built
         /\ sink.file # NilFile
         /\ sink.opt.MaxSizeMB > 0
         /\ sink.size >= sink.opt.MaxSizeMB * BytesPerMB
         /\ ~sink.opt.Compress
         /\ sink.opt.MaxBackups = 0
         /\ fret'.op = "Write"
         /\ fret'.res = Nil
         /\ AllOk(fsLog') )
       => /\ Cardinality(DOMAIN disk'.backups \ DOMAIN disk.backups) = 1
          /\ \A n \in DOMAIN disk'.backups \ DOMAIN disk.backups :
                disk'.backups[n].data = disk.active.data
          /\ disk'.active.data = << fret'.e >>]_vars

\* --------------------------------------------------------------- C17
\* The operations whose failure makes rotateLocked return an error: the
\* rename, and MkdirAll, OpenFile and Stat of the reopen.
RotationFailures == {"rename", "mkdir", "open", "fstat"}

\* The call ran rotateLocked and it returned the error of operation o.
RotationFailedAt(log, o) ==
    \E i, j \in DOMAIN log :
        /\ log[i].op = "stat"
        /\ i < j
        /\ log[j].op = o
        /\ ~log[j].ok
        /\ o \in RotationFailures

\* The ids of the entries of which some byte is in some file.
EntriesOnDisk(d) ==
    {d.active.data[i].id : i \in DOMAIN d.active.data}
    \cup UNION {{d.backups[n].data[i].id : i \in DOMAIN d.backups[n].data} :
                  n \in DOMAIN d.backups}

\* C17: if a Write needs a rotation and the rotation fails at the rename or
\* at the reopen, the Write returns that operation's error, calls no
\* file.Write, and no byte of its entry is in any file.
C17_FailedRotationWritesNothing ==
    [][\A o \in RotationFailures :
          (fret'.op = "Write" /\ RotationFailedAt(fsLog', o))
          => /\ fret'.res = FsErr(o)
             /\ ~LogOp(fsLog', "write")
             /\ fret'.e.id \notin EntriesOnDisk(disk')
             /\ fhist'.accepted = fhist.accepted]_vars

\* The second Write has failed at the rename; the first entry is still in
\* the active file.
C17_Witness ==
    /\ fret.op = "Write"
    /\ fret.res = FsErr("rename")
    /\ fret.e.id = 2
    /\ disk.active.exists
    /\ disk.active.data # <<>>

\* --------------------------------------------------------------- C18
\* C18 (as stated): after a Write that returns a rotation error, the
\* sink's file handle, tracked size and creation time are what they were
\* before the call.
C18_FailedRotationKeepsState ==
    [][\A o \in RotationFailures :
          (fret'.op = "Write" /\ RotationFailedAt(fsLog', o))
          => /\ sink'.file = sink.file
             /\ sink'.size = sink.size
             /\ sink'.created = sink.created]_vars

\* --------------------------------------------------------------- C19
\* The steps whose errors the sink drops by design: compression, pruning.
BestEffortOps == {"gz.open", "gz.copy", "gz.remove", "readdir", "info",
                  "remove"}

\* C19 (as stated): the error of every filesystem operation that fails
\* inside a call, compression and pruning apart, is what the call returns.
C19_EveryErrorReturned ==
    \A i \in DOMAIN fsLog :
        (~fsLog[i].ok /\ fsLog[i].op \notin BestEffortOps)
            => fret.res = FsErr(fsLog[i].op)

\* --------------------------------------------------------------- C20
\* A step of compressFile failed in the sequence log of operations.
CompressionFailed(log) ==
    \E i \in DOMAIN log : log[i].op \in {"gz.open", "gz.copy", "gz.remove"}
                          /\ ~log[i].ok

\* C20 (second half, as stated; for an active file that is not empty and
\* was last written before the instant of the rotation): whenever the
\* compression of a rotation fails, the uncompressed backup, holding what
\* the active file held, is on disk when the Write returns.
C20_FailedCompressionKeepsBackup ==
    [][( /\ fret'.op = "Write"
         /\ CompressionFailed(fsLog')
         /\ disk.active.data # <<>>
         /\ disk.active.mtime < now )
       => /\ rotatedFilename(now) \in DOMAIN disk'.backups
          /\ disk'.backups[rotatedFilename(now)].data = disk.active.data
          /\ ~disk'.backups[rotatedFilename(now)].z]_vars

\* --------------------------------------------------------------- C21
\* Directory b2 is what pruning with limit K leaves of directory b: with
\* more than K files exactly K remain, unchanged, none of them older than
\* a deleted one; with K files or fewer nothing is deleted.
PrunedTo(b, b2, K) ==
    /\ DOMAIN b2 \subseteq DOMAIN b
    /\ \A n \in DOMAIN b2 : b2[n] = b[n]
    /\ IF Cardinality(DOMAIN b) > K
       THEN /\ Cardinality(DOMAIN b2) = K
            /\ \A x \in DOMAIN b2, y \in DOMAIN b \ DOMAIN b2 :
                  b[x].mtime >= b[y].mtime
       ELSE b2 = b

\* The call renamed the active file; a step of pruneBackups failed.
Renamed(log) == \E i \in DOMAIN log : log[i].op = "rename" /\ log[i].ok
PruneFailed(log) ==
    \E i \in DOMAIN log : log[i].op \in {"readdir", "info", "remove"}
                          /\ ~log[i].ok

\* C21 as stated: with a backup limit K > 0, every pruning over N > K
\* backups leaves exactly K of them, none older than a deleted one, and
\* deletes nothing when N <= K; after every rotation that renamed the
\* active file at most K backups exist.
C21_PruneLeavesK ==
    [][/\ fret'.op = "pruneBackups"
          => PrunedTo(disk.backups, disk'.backups, sink.opt.MaxBackups)
       /\ (fret'.op = "Write" /\ Renamed(fsLog') /\ sink.opt.MaxBackups > 0)
          => Cardinality(DOMAIN disk'.backups) <= sink.opt.MaxBackups]_vars

\* C21, amended: the same, for a pruning whose directory listing, file
\* stats and removals all succeed; a pruning in which one of them fails
\* still creates and alters no file.
C21_PruneLeavesKUnlessFailed ==
    [][/\ fret'.op = "pruneBackups"
          => IF PruneFailed(fsLog')
             THEN /\ DOMAIN disk'.backups \subseteq DOMAIN disk.backups
                  /\ \A n \in DOMAIN disk'.backups :
                        disk'.backups[n] = disk.backups[n]
             ELSE PrunedTo(disk.backups, disk'.backups, sink.opt.MaxBackups)
       /\ ( /\ fret'.op = "Write"
            /\ Renamed(fsLog')
            /\ ~PruneFailed(fsLog')
            /\ sink.opt.MaxBackups > 0 )
          => Cardinality(DOMAIN disk'.backups) <= sink.opt.MaxBackups]_vars

\* A direct pruning with limit 2 has deleted the files beyond the limit:
\* three backups or more were there, two are left.
C21_Witness ==
    /\ fret.op = "pruneBackups"
    /\ LogOp(fsLog, "remove")
    /\ AllOk(fsLog)
    /\ sink.opt.MaxBackups = 2
    /\ Cardinality(DOMAIN disk.backups) = 2

\* --------------------------------------------------------------- C22
\* The call ran compressFile and every step of it succeeded, the removal
\* of the source being the last.
CompressionSucceeded(log) ==
    /\ \E i \in DOMAIN log : log[i].op = "gz.remove" /\ log[i].ok
    /\ ~CompressionFailed(log)

\* The name of the compressed backup of the rotation of this instant.
CompressedName == [rotatedFilename(now) EXCEPT !.gz = TRUE]

OpenFailures == {"mkdir", "open", "fstat"}

\* C23: NewRotatingFileSink with an empty path returns ErrRotationNoPath
\* and no sink, without a filesystem operation; with a path it fails if
\* and only if MkdirAll, OpenFile or the file's Stat fails, returns that
\* operation's error and no sink, and leaves no descriptor open; otherwise
\* it returns a sink that holds the one open descriptor.
C23_FailedConstructionLeavesNothing ==
    [][fret'.op = "New" =>
         /\ fhist'.path = ""
               => /\ fret'.res = ErrRotationNoPath
                  /\ fsLog' = <<>>
                  /\ disk' = disk
                  /\ handles' = handles
         /\ fret'.res # Nil
               => /\ sink' = NoSink
                  /\ handles'.open = {}
                  /\ ~handles'.twice
         /\ (fret'.res # Nil /\ fhist'.path # "")
               => /\ fret'.res \in {FsErr(o) : o \in OpenFailures}
                  /\ \A o \in OpenFailures :
                        fret'.res = FsErr(o) <=> LogFailed(fsLog', o)
         /\ fret'.res = Nil
               => /\ fhist'.path # ""
                  /\ \A o \in OpenFailures : ~LogFailed(fsLog', o)
                  /\ sink'.built
                  /\ sink'.file # NilFile
                  /\ handles'.open = {sink'.file}]_vars

\* The construction has failed at the Stat of the file it had just created
\* and opened: the file is on disk, its descriptor is closed.
C23_Witness ==
    /\ fret.op = "New"
    /\ fret.res = FsErr("fstat")
    /\ ~sink.built
    /\ handles.count = 1
    /\ handles.open = {}
    /\ disk.active.exists
    /\ disk.active.data = <<>>

\* --------------------------------------------------------------- C24
\* The call of p is between s.mu.Lock() and its return.
InCall(p) == pc[p] \in {"w_check", "w_rotate", "w_rename", "w_write", "w_rest",
                        "f_body", "c_body"}

\* The bytes of one entry are next to each other in the bytes d.
Contiguous(d) ==
    \A i, k \in DOMAIN d :
        d[i].id = d[k].id => \A j \in i..k : d[j].id = d[i].id

\* The bytes d end with the whole of entry e, and hold nothing else of it.
WholeAtEnd(d, e) ==
    LET at == {i \in DOMAIN d : d[i].id = e.id}
        first == Len(d) - Cardinality(at) + 1
    IN /\ at # {}
       /\ at = first..Len(d)
       /\ DataSize(SubSeq(d, first, Len(d))) = e.len

\* C24: among concurrent callers at most one is between Lock and return,
\* and it holds s.mu; while a call is there (in particular from the close
\* of the old handle to the reopen of a rotation) no step of another
\* goroutine touches the sink, the files or the descriptors, so no other
\* Write appends, no Flush syncs and no Close closes; the bytes of an entry
\* are never interleaved with another entry's, and a Write that returns
\* success has put its whole entry at the end of the active file and
\* nowhere else.
C24_CallsAreSerialized ==
    /\ [](\A p, q \in Producers : (p # q /\ InCall(p)) => ~InCall(q))
    /\ [](\A p \in Producers : InCall(p) => sink.mu = p)
    /\ []((\A p \in Producers : ~InCall(p)) => sink.mu = Unlocked)
    /\ [][\A p \in Producers :
             (InCall(p) /\ pc'[p] = pc[p])
             => /\ sink' = sink
                /\ disk' = disk
                /\ handles' = handles
                /\ fsLog' = <<>>]_vars
    /\ [](/\ Contiguous(disk.active.data)
          /\ \A n \in DOMAIN disk.backups : Contiguous(disk.backups[n].data))
    /\ []((fret.op = "Write" /\ fret.res = Nil)
            => /\ WholeAtEnd(disk.active.data, fret.e)
               /\ \A n \in DOMAIN disk.backups :
                     \A i \in DOMAIN disk.backups[n].data :
                        disk.backups[n].data[i].id # fret.e.id)

\* One goroutine is in the middle of a rotation for the first entry, the
\* old handle closed and the file not yet renamed, while the other waits
\* for the lock in its Write of the second entry.
C24_Witness ==
    \E p, q \in Producers :
        /\ pc[p] = "w_rename"
        /\ pc[q] = "w_lock"
        /\ sink.file = NilFile
        /\ handles.open = {}
        /\ cur[p].id = 1
        /\ cur[q].id = 2

\* --------------------------------------------------------------- C25
\* C25 (as stated, for Write on the Batch Sink): a Write whose context is
\* already cancelled when it is called returns the context's error, and
\* so does not enqueue its entry.  (At the non-blocking enqueue ctxDone[p]
\* can only be true from the start of the call.)
C25_CancelledWriteReturnsCtxErr ==
    [][\A p \in Producers :
          (pc[p] = "w_try" /\ ctxDone[p] /\ pc'[p] = "idle")
          => /\ ret'.res = CtxErr
             /\ UNCHANGED <<queue, accepted>>]_vars

\* --------------------------------------------------------------- C26
IsWorkerCall(c) == c.by = Worker

\* The calls the worker has made on the inner sink, in order.
WorkerLog == SelectSeq(innerLog, IsWorkerCall)

\* What one flush of batch b adds to the worker's calls: a Write of every
\* entry in order, then one Flush.
FlushCalls(b) ==
    [i \in 1..(Len(b) + 1) |->
        IF i <= Len(b) THEN InnerCall("Write", Worker, b[i])
        ELSE InnerCall("Flush", Worker, 0)]

\* The sequence s ends with the sequence t.
EndsWith(s, t) ==
    /\ Len(t) <= Len(s)
    /\ SubSeq(s, Len(s) - Len(t) + 1, Len(s)) = t

\* C26: with MaxEntries = M > 0 the pending batch holds fewer than M
\* entries whenever the worker is not inside a flush; the receive that
\* brings the batch to M entries, in the main loop or in the shutdown
\* drain, starts a flush at once; the worker receives nothing during a
\* flush; and when the flush ends the worker has written every entry of
\* the batch to the inner sink in order, has then called the inner Flush
\* once, and the batch is empty.
C26_ThresholdFlush ==
    /\ []((given.MaxEntries > 0 /\ wpc # "flush")
            => Len(batch) < given.MaxEntries)
    /\ [][(given.MaxEntries > 0 /\ Len(batch') > Len(batch)
                                /\ Len(batch') >= given.MaxEntries)
          => (wpc \in {"select", "drain"} /\ wpc' = "flush" /\ wret' = wpc)]_vars
    /\ [][(wpc = "flush" /\ wpc' = "flush") => batch' = batch]_vars
    /\ [][(wpc = "flush" /\ wpc' # "flush")
          => /\ EndsWith(WorkerLog', FlushCalls(batch))
             /\ batch' = <<>>
             /\ wpc' = wret]_vars

\* Without timer and before any Close, the worker has flushed a batch of
\* two entries on the count alone and is back at its select.
C26_Witness ==
    /\ given.MaxEntries = 2
    /\ given.Interval = 0
    /\ ~closed
    /\ wpc = "select"
    /\ batch = <<>>
    /\ Len(WorkerLog) = 3
    /\ WorkerLog = FlushCalls(accepted)

\* --------------------------------------------------------------- C27
\* The worker leaves its select for a flush without having received an
\* entry: the case <-flushC.
TickFlushStarts == wpc = "select" /\ wpc' = "flush" /\ batch' = batch

\* The flush in progress was started by a tick: it returns to the main
\* select and the batch is below the count threshold, if there is one.
StartedByTick ==
    /\ wpc = "flush"
    /\ wret = "select"
    /\ given.MaxEntries = 0 \/ Len(batch) < given.MaxEntries

\* C27: a flush is started by a tick only with Interval > 0 and a batch
\* that is not empty, and that step itself calls nothing; such a flush,
\* whatever the size of the batch, ends with the worker having written
\* every pending entry to the inner sink in order and called the inner
\* Flush once, the batch empty and the worker back at its select; outside
\* a flush the worker never calls the inner sink and a flush never runs on
\* an empty batch, so a tick on an empty batch makes no inner-sink call.
C27_TickFlushes ==
    /\ [][TickFlushStarts
          => /\ given.Interval > 0
             /\ batch # <<>>
             /\ fi' = 1
             /\ wret' = "select"
             /\ innerLog' = innerLog]_vars
    /\ [][(StartedByTick /\ wpc' # "flush")
          => /\ EndsWith(WorkerLog', FlushCalls(batch))
             /\ Len(WorkerLog') = Len(WorkerLog) + 1
             /\ batch' = <<>>
             /\ wpc' = "select"]_vars
    /\ [][wpc # "flush" => WorkerLog' = WorkerLog]_vars
    /\ [](wpc = "flush" => batch # <<>>)

\* With a timer and no count threshold, one tick has flushed a batch of
\* two entries; the sink is still open.
C27_Witness ==
    /\ given.MaxEntries = 0
    /\ given.Interval > 0
    /\ ~closed
    /\ wpc = "select"
    /\ batch = <<>>
    /\ Len(accepted) = 2
    /\ WorkerLog = FlushCalls(accepted)

\* --------------------------------------------------------------- C28
\* Neither flush trigger is configured.
NoFlushTriggers == given.MaxEntries = 0 /\ given.Interval = 0

\* C28: with MaxEntries = 0 and Interval = 0 the worker passes nothing to
\* the inner sink before Close is called, and when the worker has ended
\* its calls on the inner sink are one flush of all accepted entries (no
\* call if none was accepted).
C28_FlushOnlyAtShutdown ==
    NoFlushTriggers
    => /\ ~closed => WorkerLog = <<>>
       /\ wpc \in {"exit", "exited"}
          => WorkerLog = IF accepted = <<>> THEN <<>> ELSE FlushCalls(accepted)

\* --------------------------------------------------------------- C29
\* In this step the worker called the inner sink and the call failed.
WorkerCallFails ==
    /\ Len(WorkerLog') = Len(WorkerLog) + 1
    /\ innerRet' = InnerErr

\* The last element of the non-empty sequence s.
Last(s) == s[Len(s)]

\* The entries the worker has passed to the inner sink's Write, in order.
WorkerWrites ==
    [i \in 1..Len(SelectSeq(WorkerLog, LAMBDA c : c.op = "Write")) |->
        SelectSeq(WorkerLog, LAMBDA c : c.op = "Write")[i].e]

\* C29: when a Write of the inner sink fails during a worker flush, the
\* worker stays in the flush with the batch as it was and goes on to the
\* next entry, so that the flush still ends with a Write of every entry of
\* the batch and one Flush; when the inner Flush fails, the batch is
\* emptied all the same and the worker returns to the loop the flush was
\* started from; no entry is written a second time; the failed call's
\* step returns no producer call, and no Write of the wrapper ever returns
\* the inner sink's error.
C29_WorkerSwallowsInnerErrors ==
    /\ [][WorkerCallFails
          => /\ wpc = "flush"
             /\ ret' = NoReturn
             /\ UNCHANGED <<queue, accepted, pc>>
             /\ IF fi <= Len(batch)
                THEN /\ Last(WorkerLog') = InnerCall("Write", Worker, batch[fi])
                     /\ wpc' = "flush"
                     /\ batch' = batch
                     /\ fi' = fi + 1
                ELSE /\ Last(WorkerLog') = InnerCall("Flush", Worker, 0)
                     /\ EndsWith(WorkerLog', FlushCalls(batch))
                     /\ batch' = <<>>
                     /\ wpc' = wret
                     /\ wpc' \in {"select", "drain", "exit"}]_vars
    /\ [](wpc = "flush"
            => /\ fi \in 1..(Len(batch) + 1)
               /\ \A i \in 1..(fi - 1) :
                    WorkerLog[Len(WorkerLog) - (fi - 1) + i]
                        = InnerCall("Write", Worker, batch[i]))
    /\ [](\A i, j \in 1..Len(WorkerWrites) :
            WorkerWrites[i] = WorkerWrites[j] => i = j)
    /\ [](ret.op = "Write" => ret.res # InnerErr)

\* The inner Write of the first of two batch entries has just failed and
\* the worker is about to write the second.
C29_Witness ==
    /\ wpc = "flush"
    /\ Len(batch) = 2
    /\ fi = 2
    /\ innerRet = InnerErr
    /\ WorkerLog # <<>>
    /\ Last(WorkerLog) = InnerCall("Write", Worker, batch[1])
    /\ Last(innerLog) = Last(WorkerLog)

\* --------------------------------------------------------------- C30
\* The sink is open and holds no file handle.
NoHandle == sink.built /\ ~sink.closed /\ sink.file = NilFile

\* The file at the base path once os.OpenFile with O_CREATE has run.
Reopened ==
    IF disk.active.exists THEN disk.active
    ELSE [data |-> <<>>, z |-> FALSE, mtime |-> now, exists |-> TRUE]

\* The sink with size and creation time taken from that file's stat.
Reseeded == [sink EXCEPT !.size = StatSize(Reopened),
                         !.created = StatModTime(Reopened)]

\* The first k operations of the call that has just returned are ops, and
\* all of them succeeded.
BeginsWith(ops) ==
    /\ Len(fsLog') >= Len(ops)
    /\ \A i \in 1..Len(ops) : fsLog'[i].op = ops[i] /\ fsLog'[i].ok

\* The operations of the call that has just returned.
OpsDone == [i \in 1..Len(fsLog') |-> fsLog'[i].op]

\* C30: a Write with a live context on an open sink without file handle
\* first runs openCurrent on the base path.  If that fails, Write returns
\* the error, appends nothing and the sink still has no handle.  If it
\* succeeds, the rotation check is made with the size and modification
\* time of the file just opened: when it says no, the call's operations
\* are mkdir, open, fstat, write, the sink holds the new descriptor, its
\* creation time is the file's modification time, its size follows the
\* file, and a successful Write has appended the entry to the file; when
\* it says yes, the rotation (close, stat, ...) follows the reopening.  A
\* Flush with a live context in that state returns nil, performs no
\* filesystem operation and changes nothing.
C30_LazyReopen ==
    /\ [][(NoHandle /\ fret'.op = "Write" /\ ~fret'.c)
          => /\ fsLog' # <<>>
             /\ fsLog'[1].op = "mkdir"
             /\ IF BeginsWith(<<"mkdir", "open", "fstat">>)
                THEN IF shouldRotate(Reseeded, now, fret'.e.len)
                     THEN /\ Len(fsLog') >= 5
                          /\ fsLog'[4].op = "close"
                          /\ fsLog'[5].op = "stat"
                          /\ fret'.res = Nil
                             => /\ sink'.file \in handles'.open
                                /\ Last(disk'.active.data) = fret'.e
                     ELSE /\ OpsDone = <<"mkdir", "open", "fstat", "write">>
                          /\ sink'.file = handles.count + 1
                          /\ sink'.file \in handles'.open
                          /\ sink'.created = StatModTime(Reopened)
                          /\ sink'.size = StatSize(disk'.active)
                          /\ fret'.res = Nil
                             => disk'.active.data
                                  = Append(Reopened.data, fret'.e)
                ELSE /\ fret'.res \in {"mkdir", "open", "fstat"}
                     /\ sink'.file = NilFile
                     /\ \A i \in 1..Len(fsLog') : fsLog'[i].op # "write"
                     /\ disk'.active.data = Reopened.data
                        \/ disk' = disk]_vars
    /\ [][(NoHandle /\ fret'.op = "Flush" /\ ~fret'.c)
          => /\ fret'.res = Nil
             /\ fsLog' = <<>>
             /\ UNCHANGED <<sink, disk, handles>>]_vars

\* A rotation has failed after renaming the active file away, and the next
\* Write has reopened the base path, found the new file empty, made no
\* rotation and appended its entry.
C30_Witness ==
    /\ fret.op = "Write"
    /\ fret.res = Nil
    /\ Len(fsLog) = 4
    /\ fsLog[1].op = "mkdir"
    /\ fsLog[4].op = "write"
    /\ sink.file # NilFile
    /\ fhist.writes = 2
    /\ disk.active.data = << fret.e >>
    /\ disk.backups # EmptyDir

\* --------------------------------------------------------------- C31
\* The first Close has just returned nil: it called the inner sink's Close
\* in this step and got nil.
FirstCloseReturnedNil == ret.op = "Close" /\ innerRet = Nil

\* C31: when the first Close returns without error, every entry whose
\* Write has returned success (every entry that entered the queue) has
\* been passed to the inner sink's Write.
C31_AcceptedDeliveredAtClose ==
    FirstCloseReturnedNil => Range(accepted) \subseteq Range(Delivered)

\* --------------------------------------------------------------- C32
\* C32: whenever a Close call returns nil, the worker has ended (its drain
\* loop found the queue empty and it made its final flush) and the inner
\* sink's Close has been called.
C32_CloseReturnsAfterShutdown ==
    (ret.op = "Close" /\ ret.res = Nil) => (wpc = "exited" /\ InnerClosed)

\* --------------------------------------------------------------- C33
\* The first Close has returned the context's error: the flag is set, no
\* Close is between its Swap and its return, and the inner sink's Close
\* was not called.
FirstCloseGaveUp ==
    /\ closed
    /\ \A p \in Producers : pc[p] \notin ClosePcs
    /\ ~InnerClosed

\* C33: after the first Close returned the context's error, a Close call
\* that returns nil has waited for the worker and the inner sink's Close
\* has been called by the time it returns.
C33_LaterCloseClosesInner ==
    [][(FirstCloseGaveUp /\ ret'.op = "Close" /\ ret'.res = Nil)
       => (wpc' = "exited" /\ InnerClosed')]_vars

\* --------------------------------------------------------------- C34
\* No element occurs twice in the sequence s.
NoDuplicates(s) == \A i, j \in 1..Len(s) : s[i] = s[j] => i = j

\* C34: the inner sink's Write receives no entry twice, whichever flushes
\* (count, timer, shutdown) deliver the entries; it receives only entries
\* that entered the queue; no entry enters the queue twice; and an entry
\* enters the queue only in the step in which its Write returns nil, so an
\* entry whose Write returned ErrQueueFull, ErrBatchClosed or the context's
\* error is neither queued nor delivered.
C34_AtMostOnce ==
    /\ [](NoDuplicates(Delivered))
    /\ [](NoDuplicates(accepted))
    /\ [](Range(Delivered) \subseteq Range(accepted))
    /\ []((ret.op = "Write" /\ ret.res # Nil)
            => ret.e \notin (Range(accepted) \cup Range(Delivered)))
    /\ [][\A e \in Range(accepted') \ Range(accepted) :
             ret' = Returned("Write", e, Nil)]_vars

\* Two entries have been delivered by two separate flushes, and the worker
\* has ended after the shutdown drain.
C34_Witness ==
    /\ Len(Delivered) = 2
    /\ Len(WorkerLog) = 4
    /\ WorkerLog[2].op = "Flush"
    /\ wpc = "exited"

\* --------------------------------------------------------------- C35
\* C35: once Close has set the closed flag, the worker eventually
\* terminates and the Close call eventually returns, whatever Write calls
\* are in progress meanwhile.
C35_CloseTerminates ==
    closed ~> (wpc = "exited" /\ \A p \in Producers : pc[p] \notin ClosePcs)

\* The first Close, its context live, returns after the worker has ended,
\* while a Write that passed the closed check is still in progress.
C35_Witness ==
    /\ ret.op = "Close"
    /\ innerRet # NoCall
    /\ ~ctxFirst
    /\ wpc = "exited"
    /\ \E p \in Producers : pc[p] \in {"w_try", "w_block"}

\* --------------------------------------------------------------- C36
\* C36: in Block mode a Write that blocks on the full queue eventually
\* returns.
C36_BlockedWriteReturns ==
    \A p \in Callers : (pc[p] = "w_block") ~> (pc[p] = "idle")

\* --------------------------------------------------------------- C37
\* C37: with Interval > 0, every entry that entered the queue is
\* eventually passed to the inner sink's Write, unless Close is called;
\* this needs no count threshold.
C37_TimerDelivers ==
    \A e \in 1..MaxWrites :
        (given.Interval > 0 /\ e \in Range(accepted))
            ~> (e \in Range(Delivered) \/ closed)

\* With a count threshold of two that was not reached, and without Close,
\* the timer has delivered the one accepted entry.
C37_Witness ==
    /\ given.Interval > 0
    /\ given.MaxEntries = 2
    /\ ~closed
    /\ accepted = <<1>>
    /\ Delivered = accepted
    /\ \A p \in Producers : pc[p] = "idle"

\* --------------------------------------------------------------- C38
\* Every backup of directory d is in directory e under the same name and
\* with the same contents.
BackupsKept(d, e) ==
    \A n \in DOMAIN d.backups :
        /\ n \in DOMAIN e.backups
        /\ e.backups[n].data = d.backups[n].data

\* C38: with retention pruning disabled, no call on the sink removes or
\* alters a backup that exists: every rotation adds a backup file next to
\* the earlier ones, also when it falls into the same UTC second as an
\* earlier rotation.
C38_BackupsNeverOverwritten ==
    [][(sink.built /\ sink.opt.MaxBackups = 0) => BackupsKept(disk, disk')]_vars

\* --------------------------------------------------------------- C39
\* The contents of the backups N of b, oldest timestamp first.
RECURSIVE InOrder(_, _)
InOrder(b, N) ==
    IF N = {} THEN <<>>
    ELSE LET n == CHOOSE n \in N : \A m \in N : n.ts <= m.ts
         IN  b[n].data \o InOrder(b, N \ {n})

\* All backup files in rotation order, followed by the active file.
Total(d) == InOrder(d.backups, DOMAIN d.backups) \o d.active.data

\* No backup bears the timestamp a rotation would use now.
FreshStamp == \A n \in DOMAIN disk.backups : n.ts # Instants[now].s

\* The sink exists, without pruning and without compression.
PlainRotation == sink.built /\ sink.opt.MaxBackups = 0 /\ ~sink.opt.Compress

SizeLimit == sink.opt.MaxSizeMB * BytesPerMB

\* No entry written so far is longer than the limit.
EntriesWithinLimit ==
    \A i \in DOMAIN fhist.accepted : fhist.accepted[i].len <= SizeLimit

\* C40: with the size limit enabled, after a Write that returns nil the
\* tracked size is at most the limit as long as no written entry was
\* longer than the limit; and an entry longer than the limit has been
\* written after a rotation into a new file, of which it is the only
\* content.
C40_SizeWithinLimit ==
    (sink.built /\ sink.opt.MaxSizeMB > 0 /\ fret.op = "Write" /\ fret.res = Nil)
        => /\ EntriesWithinLimit => sink.size <= SizeLimit
           /\ fret.e.len > SizeLimit
                => (RotatedIn(fsLog) /\ disk.active.data = << fret.e >>)

====
